---- MODULE Spec2Model ----
(***************************************************************************)
(* Hash sorting and iterated link compaction of the unitig compactor.      *)
(*                                                                         *)
(* hashes_sorting (src/src/pipeline/hashes_sorting.rs) pairs hash entries  *)
(* of equal hash into initial unitig links; links_compaction               *)
(* (src/src/pipeline/links_compaction.rs) rewrites the link buckets, one   *)
(* parallel worker per input bucket, until no link is re-emitted.          *)
(*                                                                         *)
(* The same module holds the components the pipeline runs on, each with    *)
(* its own specification: the packet pool (packet.rs), executor addresses  *)
(* (executor.rs), the k-mer merging reader (kmers_transform/reader.rs),    *)
(* the querier dispatch (querier_generic_dispatcher.rs), cut_n and         *)
(* make_buckets (pipeline.rs), the LinkMapping and sequence extra-data     *)
(* codecs (links_compaction.rs, binary.rs) and the color index map         *)
(* (colors_memmap.rs).                                                     *)
(*                                                                         *)
(* Rust slices are 0-based, TLA+ sequences 1-based: x[0], x[1] of the      *)
(* source are x[1], x[2] here.                                             *)
(***************************************************************************)
EXTENDS Integers, Sequences, FiniteSets, Bags, TLC

\* Number of buckets (buckets_count) and of parallel workers, one per input file.
BucketsCount == 2
\* Longest chain of partial unitigs fed to the pipeline instance.
MaxNodes == 5
\* The free-form hashes_sorting instance: hash values, partial unitigs, entries in all.
MaxHash == 2
MaxFreeNodes == 2
MaxFreeEntries == 3
\* Longest chain in the instance checked for termination.
MaxFairNodes == 3
\* Longest entries list of a link in the instance that starts from link buckets.
MaxLinkLen == 2
\* The packet pool: boxed bodies that can exist, cap of the pool, upcasts of one packet.
MaxObjects == 2
PoolCap == 1
MaxCasts == 2
\* Executor addresses: calling threads (each can hold a clone), addresses generated.
MaxThreads == 2
MaxAddresses == 2
\* The k-mer merging reader: log2 of the second buckets, counters of a descriptor, reads
\* of a bucket file, capacity of a reads buffer, distinct second-bucket hashes.
MaxLog == 1
MaxCounters == 2
MaxReads == 3
BufferCap == 2
\* Largest k given to the querier dispatch (the widths change at 8, 16, 32, 64).
MaxK == 65
\* cut_n: longest read and largest k.
MaxReadLen == 4
MaxCutK == 3
\* make_buckets: windows of a read, largest window hash, most buckets.
MaxWindows == 3
MaxWindowHash == 3
MaxBucketCount == 2
\* Most LinkMapping records written to one bucket.
MaxMappings == 2
\* Most sequences written through one temp buffer.
MaxSequences == 2
\* The hashes of hash_colors are 0 .. MaxColorHash; the calls of get_id by one thread.
MaxColorHash == 2
MaxGetIdCalls == 2

Buckets == 0 .. (BucketsCount - 1)

VARIABLES
    phase,              \* function of the pipeline that is running
    status,             \* "running", "panic" (failed assert) or "exit0" (exit(0))
    hash_inputs,        \* file_hashes_inputs: file index -> set of HashEntry
    links_inputs,       \* links_inputs: bucket -> bag of UnitigLink
    links_buckets,      \* MultiThreadBuckets written by the running function
    final_buckets,      \* "unitigs_map" buckets (AppendOrCreate)
    result_map_buckets, \* "results_map" buckets (AppendOrCreate)
    wpc,                \* per worker (one per input file): "todo" or "done"
    totsum,             \* AtomicU64 shared by the workers
    ret,                \* second component returned by links_compaction
    last,               \* the most recent worker pass: its groups and their outcomes
    pool,               \* PacketsPool<T>: channel of returned bodies, outstanding count
    packets,            \* the Packet<T> or PacketAny that holds each body, if any
    lifetimes,          \* what has happened to each body since it was handed out
    EXECUTOR_GLOBAL_ID, \* static AtomicU64 of executor.rs
    callers,            \* threads inside Executor::generate_new_address
    generated,          \* the addresses generated so far, in the order of their fetch_add
    KEEP_FILES,         \* the global flag read by the reader
    file,               \* the InputBucketDesc packet of a group, and its file on disk
    group,              \* what allocate_new_group returned and passed to the initializer
    reader,             \* KmersTransformReader: its fields and where it is
    packet_send,        \* the packet_send calls of the reader, in order
    args,               \* QueryArgs of a dispatch_querier_hash_type call
    dispatched,         \* the run_querier_from_args instances called, or the panic
    freezer,            \* cut_n: the read taken from the input freezer, and k
    writer,             \* cut_n: the records added to the output freezer
    bucket_reads,       \* make_buckets: threshold, bucket count and the reads left
    bucket_writers,     \* make_buckets: the reads added to each bucket writer
    mapping_bucket,     \* LinkMapping records given to write_to and the bytes of the bucket
    mapping_stream,     \* the reader over those bytes and what from_stream returned
    sequence_writer,    \* extra data of the sequences written, temp buffer, blocks flushed
    sequence_reader,    \* the decoder of the blocks: position, last_data, records decoded
    colors,             \* ColorsMemMap::colors: hash of a color set -> color index
    colors_storage,     \* the color sets given to serialize_colors, in order
    hash_keys,          \* ColorsMemMap::hash_keys, drawn by new()
    get_id_calls        \* threads inside ColorsMemMap::get_id and what they returned

packet_vars == << pool, packets, lifetimes >>

exec_vars == << EXECUTOR_GLOBAL_ID, callers, generated >>

reader_vars == << KEEP_FILES, file, group, reader, packet_send >>

dispatch_vars == << args, dispatched >>

cutn_vars == << freezer, writer >>

bucket_vars == << bucket_reads, bucket_writers >>

\* The variables of the components other than the two pipeline functions and the pool.
mapping_vars == << mapping_bucket, mapping_stream >>

sequence_vars == << sequence_writer, sequence_reader >>

colors_vars == << colors, colors_storage, hash_keys, get_id_calls >>

codec_vars == << mapping_vars, sequence_vars, colors_vars >>

rest_vars == << exec_vars, reader_vars, dispatch_vars, cutn_vars, bucket_vars, codec_vars >>

vars == << phase, status, hash_inputs, links_inputs, links_buckets, final_buckets,
           result_map_buckets, wpc, totsum, ret, last, pool, packets, lifetimes,
           EXECUTOR_GLOBAL_ID, callers, generated, KEEP_FILES, file, group, reader, packet_send,
           args, dispatched, freezer, writer, bucket_reads, bucket_writers,
           mapping_bucket, mapping_stream, sequence_writer, sequence_reader,
           colors, colors_storage, hash_keys, get_id_calls >>

-----------------------------------------------------------------------------
\* Sequence helpers (slice operations used by the source).

Last(s) == s[Len(s)]

Front(s) == SubSeq(s, 1, Len(s) - 1)

Reverse(s) == [i \in 1 .. Len(s) |-> s[Len(s) + 1 - i]]

Range(s) == {s[i] : i \in 1 .. Len(s)}

\* All orders in which the records of a group can follow each other in the vec.
Orderings(g) ==
    LET n == BagCardinality(g)
        S == BagToSet(g)
    IN  {s \in [1 .. n -> S] :
            \A e \in S : Cardinality({i \in 1 .. n : s[i] = e}) = CopiesIn(e, g)}

RECURSIVE SeqToBag(_)
SeqToBag(s) == IF s = << >> THEN EmptyBag ELSE SetToBag({Head(s)}) (+) SeqToBag(Tail(s))

RECURSIVE SumOver(_, _)
SumOver(f, S) ==
    IF S = {} THEN 0
    ELSE LET e == CHOOSE e \in S : TRUE IN f[e] + SumOver(f, S \ {e})

-----------------------------------------------------------------------------
\* UnitigIndex, UnitigFlags, UnitigLink (crate::unitig_link).

UnitigIndex(bucket, index) == [bucket |-> bucket, index |-> index]

new_direction(forward) == [is_forward |-> forward, begin_sealed |-> FALSE, end_sealed |-> FALSE]

new_empty == [is_forward |-> FALSE, begin_sealed |-> FALSE, end_sealed |-> FALSE]

combine(a, b) ==
    [is_forward |-> a.is_forward, begin_sealed |-> b.end_sealed, end_sealed |-> a.end_sealed]

reversed(f) ==
    [is_forward |-> ~f.is_forward, begin_sealed |-> f.end_sealed, end_sealed |-> f.begin_sealed]

seal_beginning(f) == [f EXCEPT !.begin_sealed = TRUE]

UnitigLink(entry, flags, entries) == [entry |-> entry, flags |-> flags, entries |-> entries]

\* One add_element call: the record and the bucket it is addressed to.
Out(bucket, rec) == [bucket |-> bucket, rec |-> rec]

LinkMapping(bucket, entry) == [bucket |-> bucket, entry |-> entry]

\* Outcome of one pass of a worker's loop body over a group x.
Res(kind, flipped, links, finals, maps) ==
    [kind |-> kind, flipped |-> flipped, links |-> links, finals |-> finals, maps |-> maps]

-----------------------------------------------------------------------------
\* hashes_sorting: the body of `for x in vec.group_by(|a, b| a.hash == b.hash)`.

HashEntry(hash, bucket, entry, direction) ==
    [hash |-> hash, bucket |-> bucket, entry |-> entry, direction |-> direction]

\* Mutant: the size of the group is not checked to be exactly two.
IsLinkedPair_AnySize(x) == Len(x) >= 2 /\ x[1].direction # x[2].direction

\* The guard of the loop body.
IsLinkedPair(x) == Len(x) = 2 /\ x[1].direction # x[2].direction

\* Mutant: the owner of the payload stores its own index, not its partner's.
HashLinks_OwnIndex(x, coin) ==
    LET fw == IF x[1].direction = "Forward" THEN 1 ELSE 2
        bw == 3 - fw
        slice_fw == IF coin THEN << UnitigIndex(x[fw].bucket, x[fw].entry) >> ELSE << >>
        slice_bw == IF coin THEN << >> ELSE << UnitigIndex(x[bw].bucket, x[bw].entry) >>
    IN  << Out(x[fw].bucket, UnitigLink(x[fw].entry, new_direction(TRUE), slice_fw)),
           Out(x[bw].bucket, UnitigLink(x[bw].entry, new_direction(FALSE), slice_bw)) >>

\* Mutant: both links of a pair are written with new_direction(true).
HashLinks_BothForward(x, coin) ==
    LET fw == IF x[1].direction = "Forward" THEN 1 ELSE 2
        bw == 3 - fw
        slice_fw == IF coin THEN << UnitigIndex(x[bw].bucket, x[bw].entry) >> ELSE << >>
        slice_bw == IF coin THEN << >> ELSE << UnitigIndex(x[fw].bucket, x[fw].entry) >>
    IN  << Out(x[fw].bucket, UnitigLink(x[fw].entry, new_direction(TRUE), slice_fw)),
           Out(x[bw].bucket, UnitigLink(x[bw].entry, new_direction(TRUE), slice_bw)) >>

\* The two add_element calls of a linked pair.
HashLinks(x, coin) ==
    LET fw == IF x[1].direction = "Forward" THEN 1 ELSE 2
        bw == 3 - fw
        slice_fw == IF coin THEN << UnitigIndex(x[bw].bucket, x[bw].entry) >> ELSE << >>
        slice_bw == IF coin THEN << >> ELSE << UnitigIndex(x[fw].bucket, x[fw].entry) >>
    IN  << Out(x[fw].bucket, UnitigLink(x[fw].entry, new_direction(TRUE), slice_fw)),
           Out(x[bw].bucket, UnitigLink(x[bw].entry, new_direction(FALSE), slice_bw)) >>

\* Mutant: the coin decides whether a linked pair is emitted at all.
HashGroup_CoinDrops(x, coin) ==
    IF IsLinkedPair(x) /\ coin
    THEN Res("pair", TRUE, HashLinks(x, coin), << >>, << >>)
    ELSE Res("drop", FALSE, << >>, << >>, << >>)

HashGroup(x, coin) ==
    IF IsLinkedPair(x)
    THEN Res("pair", TRUE, HashLinks(x, coin), << >>, << >>)
    ELSE Res("drop", FALSE, << >>, << >>, << >>)

-----------------------------------------------------------------------------
\* links_compaction: the body of `for x in vec.group_by(|a, b| a.entry == b.entry)`.

Panic == Res("panic", FALSE, << >>, << >>, << >>)

Skip == Res("skip", FALSE, << >>, << >>, << >>)

\* The branch taken for two non-empty links.
IsFusePair(x) == Len(x) = 2 /\ x[1].entries # << >> /\ x[2].entries # << >>

\* Mutant: the coin is consulted although the first link has its end sealed.
ShouldSwap_CoinFirst(f0, f1, coin) == f1.end_sealed \/ coin

ShouldSwap(f0, f1, coin) == f1.end_sealed \/ (~f0.end_sealed /\ coin)

\* Whether the short-circuit evaluation of should_swap reaches get_randbool().
SwapFlipsCoin(f0, f1) == ~f1.end_sealed /\ ~f0.end_sealed

\* Mutant: the combined flags are not reversed when the links are swapped.
FuseFlags_NoReverse(f0, f1, should_swap) == combine(f0, f1)

FuseFlags(f0, f1, should_swap) ==
    IF should_swap THEN reversed(combine(f0, f1)) ELSE combine(f0, f1)

\* Mutant: the back half is copied in its stored order.
FuseEntries_NoReverse(bw_slice, here, fw_slice) == Front(bw_slice) \o << here >> \o fw_slice

\* Mutant: the current entry is left out of the fused path.
FuseEntries_DropHere(bw_slice, here, fw_slice) == Reverse(Front(bw_slice)) \o fw_slice

\* concat_slice: bw_slice without its last element reversed, the current entry, fw_slice.
FuseEntries(bw_slice, here, fw_slice) == Reverse(Front(bw_slice)) \o << here >> \o fw_slice

\* The self-link check before the add_element calls, and the calls themselves.
Emit(kind, flipped, link1, link2) ==
    IF link1.rec.entries[1] = UnitigIndex(link1.bucket, link1.rec.entry)
    THEN Res("exit", flipped, << >>, << >>, << >>)
    ELSE Res(kind, flipped, << link1, link2 >>, << >>, << >>)

Fuse(bucket_index, x, coin) ==
    IF x[1].flags.is_forward = x[2].flags.is_forward THEN Panic
    ELSE
    LET flags0 == combine(x[1].flags, x[2].flags)
        should_swap == ShouldSwap(x[1].flags, x[2].flags, coin)
        fw == IF should_swap THEN 2 ELSE 1
        bw == 3 - fw
        flags == FuseFlags(x[1].flags, x[2].flags, should_swap)
        fw_slice == x[fw].entries
        bw_slice == x[bw].entries
        new_entry == Last(bw_slice)
        other_entry == Last(fw_slice)
        concat_slice ==
            FuseEntries(bw_slice, UnitigIndex(bucket_index, x[1].entry), fw_slice)
    IN  IF x[1].flags.end_sealed # flags0.end_sealed THEN Panic
        ELSE IF x[fw].flags.end_sealed # flags.end_sealed THEN Panic
        ELSE IF x[bw].flags.end_sealed # flags.begin_sealed THEN Panic
        ELSE IF x[fw].flags.begin_sealed \/ x[bw].flags.begin_sealed THEN Panic
        ELSE IF ~(flags.end_sealed \/ ~flags.begin_sealed) THEN Panic
        ELSE Emit("fuse", SwapFlipsCoin(x[1].flags, x[2].flags),
                  Out(new_entry.bucket, UnitigLink(new_entry.index, flags, concat_slice)),
                  Out(other_entry.bucket, UnitigLink(other_entry.index, new_empty, << >>)))

\* Mutant: the begin is sealed whether or not the group is lonely.
LonelySeal_Always(flags, is_lonely) == seal_beginning(flags)

\* flags after `if is_lonely { flags.seal_beginning(); ... }`.
LonelySeal(flags, is_lonely) == IF is_lonely THEN seal_beginning(flags) ELSE flags

\* Mutant: every mapping is sent to the result-map bucket of the current bucket.
PathMappings_OwnBucket(bucket_index, linked) ==
    [i \in 1 .. Len(linked) |-> Out(bucket_index, LinkMapping(bucket_index, linked[i].index))]

\* The LinkMapping records of a path, each addressed to the bucket of its UnitigIndex.
PathMappings(bucket_index, linked) ==
    [i \in 1 .. Len(linked) |->
        Out(linked[i].bucket, LinkMapping(bucket_index, linked[i].index))]

\* "Write to disk, full unitig!" of a lonely link whose end is sealed.
FinalUnitig(bucket_index, entry, flags) ==
    Res("final", FALSE, << >>,
        << Out(bucket_index, UnitigLink(entry.entry, flags, entry.entries)) >>,
        << Out(bucket_index, LinkMapping(bucket_index, entry.entry)) >>
            \o PathMappings(bucket_index, entry.entries))

\* Mutant: the first element of the entries is compared instead of the last.
IsCircular_FirstElement(bucket_index, entry) ==
    UnitigIndex(bucket_index, entry.entry) = entry.entries[1]

\* "Circular unitig detected, output it".
IsCircular(bucket_index, entry) ==
    UnitigIndex(bucket_index, entry.entry) = Last(entry.entries)

\* Mutant: the entry of a circular unitig gets a mapping of its own, as in a final one.
CircularUnitig_MapsEntry(bucket_index, entry, flags) ==
    Res("circular", FALSE, << >>,
        << Out(bucket_index, UnitigLink(entry.entry, flags, entry.entries)) >>,
        << Out(bucket_index, LinkMapping(bucket_index, entry.entry)) >>
            \o PathMappings(bucket_index, entry.entries))

CircularUnitig(bucket_index, entry, flags) ==
    Res("circular", FALSE, << >>,
        << Out(bucket_index, UnitigLink(entry.entry, flags, entry.entries)) >>,
        PathMappings(bucket_index, entry.entries))

\* Mutant: an open link beside a placeholder is always kept, no coin is flipped.
KeepDirection_NoCoin(flags, coin) == flags.end_sealed \/ ~flags.begin_sealed

\* Whether the link stays keyed at its entry (otherwise it is turned around).
KeepDirection(flags, coin) == flags.end_sealed \/ (~flags.begin_sealed /\ coin)

KeepFlipsCoin(flags) == ~flags.end_sealed /\ ~flags.begin_sealed

\* Mutant: the first element is skipped but the entries are not reversed.
TurnedEntries_NoReverse(entries, first_entry) == Tail(entries) \o << first_entry >>

\* entries of the turned link: entries reversed, first skipped, first_entry appended.
TurnedEntries(entries, first_entry) == Tail(Reverse(entries)) \o << first_entry >>

\* Mutant: the placeholder is written at the endpoint that keeps the link.
Reemit_PlaceholderAtKey(bucket_index, entry, flags0, coin) ==
    LET entries == entry.entries
        first_entry == UnitigIndex(bucket_index, entry.entry)
        last_entry == Last(entries)
        keep == KeepDirection(flags0, coin)
        new_entry == IF keep THEN first_entry ELSE last_entry
        oth_entry == IF keep THEN last_entry ELSE first_entry
        vec_slice == IF keep THEN entries ELSE TurnedEntries(entries, first_entry)
        flags == IF keep THEN flags0 ELSE reversed(flags0)
    IN  IF flags.begin_sealed /\ flags.end_sealed THEN Panic
        ELSE IF ~(flags.end_sealed \/ ~flags.begin_sealed) THEN Panic
        ELSE Emit("reemit", KeepFlipsCoin(flags0),
                  Out(new_entry.bucket, UnitigLink(new_entry.index, flags, vec_slice)),
                  Out(new_entry.bucket, UnitigLink(new_entry.index, new_empty, << >>)))

\* Mutant: the placeholder is written with the flags of the link, not new_empty().
Reemit_PlaceholderFlags(bucket_index, entry, flags0, coin) ==
    LET entries == entry.entries
        first_entry == UnitigIndex(bucket_index, entry.entry)
        last_entry == Last(entries)
        keep == KeepDirection(flags0, coin)
        new_entry == IF keep THEN first_entry ELSE last_entry
        oth_entry == IF keep THEN last_entry ELSE first_entry
        vec_slice == IF keep THEN entries ELSE TurnedEntries(entries, first_entry)
        flags == IF keep THEN flags0 ELSE reversed(flags0)
    IN  IF flags.begin_sealed /\ flags.end_sealed THEN Panic
        ELSE IF ~(flags.end_sealed \/ ~flags.begin_sealed) THEN Panic
        ELSE Emit("reemit", KeepFlipsCoin(flags0),
                  Out(new_entry.bucket, UnitigLink(new_entry.index, flags, vec_slice)),
                  Out(oth_entry.bucket, UnitigLink(oth_entry.index, flags, << >>)))

Reemit(bucket_index, entry, flags0, coin) ==
    LET entries == entry.entries
        first_entry == UnitigIndex(bucket_index, entry.entry)
        last_entry == Last(entries)
        keep == KeepDirection(flags0, coin)
        new_entry == IF keep THEN first_entry ELSE last_entry
        oth_entry == IF keep THEN last_entry ELSE first_entry
        vec_slice == IF keep THEN entries ELSE TurnedEntries(entries, first_entry)
        flags == IF keep THEN flags0 ELSE reversed(flags0)
    IN  IF flags.begin_sealed /\ flags.end_sealed THEN Panic
        ELSE IF ~(flags.end_sealed \/ ~flags.begin_sealed) THEN Panic
        ELSE Emit("reemit", KeepFlipsCoin(flags0),
                  Out(new_entry.bucket, UnitigLink(new_entry.index, flags, vec_slice)),
                  Out(oth_entry.bucket, UnitigLink(oth_entry.index, new_empty, << >>)))

\* The else branch: at most one non-empty link is looked at.
Single(bucket_index, x, coin) ==
    IF x[1].entries = << >> /\ ~(Len(x) > 1 /\ x[2].entries # << >>) THEN Skip
    ELSE
    LET entry == IF x[1].entries # << >> THEN x[1] ELSE x[2]
        is_lonely == Len(x) = 1
        flags == LonelySeal(entry.flags, is_lonely)
    IN  IF ~(is_lonely \/ x[1].entries = << >> \/ x[2].entries = << >>) THEN Panic
        ELSE IF ~(~entry.flags.begin_sealed \/ is_lonely) THEN Panic
        ELSE IF is_lonely /\ flags.end_sealed THEN FinalUnitig(bucket_index, entry, flags)
        ELSE IF IsCircular(bucket_index, entry) THEN CircularUnitig(bucket_index, entry, flags)
        ELSE Reemit(bucket_index, entry, flags, coin)

CompactGroup(bucket_index, x, coin) ==
    IF IsFusePair(x) THEN Fuse(bucket_index, x, coin) ELSE Single(bucket_index, x, coin)

\* Mutant: a link that is re-emitted without a fuse is not counted.
RemLinksIncr_FuseOnly(res) == IF res.kind \in {"fuse", "exit"} THEN 1 ELSE 0

\* rem_links += 1 is reached by every pass that does not `continue`.
RemLinksIncr(res) == IF res.kind \in {"fuse", "reemit", "exit"} THEN 1 ELSE 0

-----------------------------------------------------------------------------
\* Inputs.

\* Partial unitig i of a chain: buckets are taken round-robin.
Node(i) == UnitigIndex(i % BucketsCount, i \div BucketsCount)

\* The hash entries of edge i -> j: the Forward end of i and the Backward end of j.
EdgeEntries(h, i, j) ==
    { HashEntry(h, Node(i).bucket, Node(i).index, "Forward"),
      HashEntry(h, Node(j).bucket, Node(j).index, "Backward") }

\* A chain of n partial unitigs 0 -> 1 -> ... -> n-1, closed into a cycle or not,
\* with or without an unmatched entry at the open Forward end.
ChainEntries(n, closed, dangling) ==
    UNION { EdgeEntries(i + 1, i, i + 1) : i \in 0 .. (n - 2) }
      \cup (IF closed THEN EdgeEntries(n, n - 1, 0) ELSE {})
      \cup (IF ~closed /\ dangling
            THEN { HashEntry(n, Node(n - 1).bucket, Node(n - 1).index, "Forward") }
            ELSE {})

\* Hash entries reach the file of their hash.
FileOf(hash) == hash % BucketsCount

Files(entries) == [f \in Buckets |-> {e \in entries : FileOf(e.hash) = f}]

ChainInputs ==
    { Files(ChainEntries(n, closed, dangling)) :
        n \in 1 .. MaxNodes, closed \in BOOLEAN, dangling \in BOOLEAN }

\* Free-form hash entries: any small set over a small universe of hashes and unitigs.
FreeNode(i) == UnitigIndex(i % BucketsCount, i)

HashEntries ==
    { HashEntry(h, FreeNode(i).bucket, FreeNode(i).index, d) :
        h \in 0 .. MaxHash, i \in 0 .. (MaxFreeNodes - 1), d \in {"Forward", "Backward"} }

FreeInputs == { Files(S) : S \in {T \in SUBSET HashEntries : Cardinality(T) <= MaxFreeEntries} }

EmptyBuckets == [b \in Buckets |-> EmptyBag]

NoPass == [fn |-> "none", bucket |-> 0, steps |-> << >>]

-----------------------------------------------------------------------------
\* Packets and their pool (execution_manager/packet.rs).

Objects == 1 .. MaxObjects

\* The pool is a PacketsPool<T>; new_simple also builds packets of another type U.
PacketTypes == {"T", "U"}

\* struct Packet<T> { object, returner }
Packet(object, returner, ty) ==
    [kind |-> "Packet", object |-> object, returner |-> returner, ty |-> ty]

\* struct PacketAny { object, returner }; ty is the type of the body behind dyn Any.
PacketAny(object, returner, ty) ==
    [kind |-> "PacketAny", object |-> object, returner |-> returner, ty |-> ty]

NoPacket == [kind |-> "None", object |-> 0, returner |-> "None", ty |-> "T"]

\* A packet whose Drop never ran to its end: its body is neither returned nor freed.
Leaked(self) == [self EXCEPT !.kind = "Leaked"]

\* Sender::try_send on the bounded channel: a body that does not fit is dropped.
try_send(queue, object) == IF Cardinality(queue) < PoolCap THEN queue \cup {object} ELSE queue

\* (Sender<Box<T>>, AtomicU64)::send_any
send_any(pl, object) ==
    [outstanding |-> pl.outstanding - 1, queue |-> try_send(pl.queue, object)]

\* ObjectsPool::alloc_object: a returned body if there is one, else a new one; a
\* blocking call does not go over the cap.
CanAlloc(pl, blocking, object, fresh) ==
    IF pl.queue # {} THEN object \in pl.queue
    ELSE fresh /\ (blocking => pl.outstanding < PoolCap)

alloc_object(pl, object) ==
    [outstanding |-> pl.outstanding + 1, queue |-> pl.queue \ {object}]

\* PacketsPool::alloc_packet
alloc_packet(object) == Packet(object, "Some", "T")

\* Packet::new_simple
new_simple(object, ty) == Packet(object, "None", ty)

\* Mutant: the type-erased packet is built without the returner.
upcast_LosesReturner(self) == PacketAny(self.object, "None", self.ty)

\* Packet::upcast
upcast(self) == PacketAny(self.object, self.returner, self.ty)

\* PacketAny::downcast::<T>, when the body is a T
downcast(self, ty) == Packet(self.object, self.returner, ty)

\* What running or skipping a destructor does: the pool after it, whether the body was
\* handed to the returner, whether the body was freed.
Dropped(pl, sent, freed) == [pool |-> pl, sent |-> sent, freed |-> freed]

\* Mutant: the body is freed whether or not there is a returner.
DropPacket_NoReturn(self, pl) == Dropped(pl, 0, 1)

\* Drop for Packet<T>
DropPacket(self, pl) ==
    IF self.returner = "Some"
    THEN LET after == send_any(pl, self.object)
         IN  Dropped(after, 1, IF self.object \in after.queue THEN 0 ELSE 1)
    ELSE Dropped(pl, 0, 1)

\* Mutant: the value a cast consumes is dropped as a typed Packet, not forgotten.
forget_RunsDrop(self, pl) ==
    IF self.returner = "Some"
    THEN LET after == send_any(pl, self.object)
         IN  Dropped(after, 1, IF self.object \in after.queue THEN 0 ELSE 1)
    ELSE Dropped(pl, 0, 1)

\* drop_in_place(&mut self.returner); mem::forget(self): no destructor of self runs.
forget(self, pl) == Dropped(pl, 0, 0)

NoLifetime ==
    [pooled |-> FALSE, sends |-> 0, frees |-> 0, casts |-> 0, touched |-> FALSE,
     dropped |-> FALSE, orig |-> NoPacket]

\* ObjectsPool::new: nothing handed out, nothing returned yet.
InitPackets ==
    /\ pool = [outstanding |-> 0, queue |-> {}]
    /\ packets = [o \in Objects |-> NoPacket]
    /\ lifetimes = [o \in Objects |-> NoLifetime]

-----------------------------------------------------------------------------
\* Executor addresses (execution_manager/executor.rs).

Threads == 1 .. MaxThreads

ExecutorTypes == {"KmersTransformReader", "KmersTransformProcessor", "KmersTransformResplitter"}

\* Places where Arc::new can put an ExecutorDropper.
Keepers == 1 .. MaxAddresses

\* std::any::TypeId::of::<Self>()
TypeIdOf(Self) == Self

\* struct ExecutorAddress
ExecutorAddress(keeper, type_id, id) ==
    [executor_keeper |-> keeper, executor_type_id |-> type_id, executor_internal_id |-> id]

\* Mutant: the counter is read, not advanced.
IdFetchAdd_Load(cur) == [old |-> cur, new |-> cur]

\* EXECUTOR_GLOBAL_ID.fetch_add(1, Ordering::Relaxed): the value before, the value after.
IdFetchAdd(cur) == [old |-> cur, new |-> cur + 1]

\* One generated address as the model follows it: the executor type the call was made
\* on and the strong count of its keeper (the address and its clones still alive).
Generated(Self, address) == [Self |-> Self, address |-> address, clones |-> 1]

\* Keepers that are allocated: of the addresses alive and of the calls under way.
KeepersInUse(gen, cs) ==
    { gen[i].address.executor_keeper : i \in { j \in DOMAIN gen : gen[j].clones > 0 } }
        \cup { cs[t].keeper : t \in { u \in DOMAIN cs : cs[u].pc = "keeper" } }

IdleCaller == [pc |-> "idle", Self |-> "KmersTransformReader", keeper |-> 0]

-----------------------------------------------------------------------------
\* The k-mer merging reader (pipeline_common/kmers_transform/reader.rs).

\* BucketCounter; its count is only printed.
BucketCounter(is_outlier) == [is_outlier |-> is_outlier]

\* struct InputBucketDesc
InputBucketDesc(path, sub_bucket_counters, resplitted) ==
    [path |-> path, sub_bucket_counters |-> sub_bucket_counters, resplitted |-> resplitted]

\* A bucket file: the descriptor sent to the reader, the value get_sequence_bucket gives
\* for each read in it, whether it is on the filesystem, and how many resplitters its
\* records have been through.
BucketFile(desc, reads, depth) ==
    [desc |-> desc, reads |-> reads, on_disk |-> TRUE, depth |-> depth]

\* Mutant: a resplitted descriptor is routed like a fresh one.
RouteOf_IgnoresResplitted(desc, i) ==
    IF i < Len(desc.sub_bucket_counters) /\ desc.sub_bucket_counters[i + 1].is_outlier
    THEN "KmersTransformResplitter"
    ELSE "KmersTransformProcessor"

\* Mutant: any outlier tag of the descriptor sends every sub-bucket to a resplitter.
RouteOf_AnyOutlier(desc, i) ==
    IF ~desc.resplitted
       /\ \E j \in DOMAIN desc.sub_bucket_counters : desc.sub_bucket_counters[j].is_outlier
    THEN "KmersTransformResplitter"
    ELSE "KmersTransformProcessor"

\* The executor type of the address of sub-bucket i (from 0).
RouteOf(desc, i) ==
    IF ~desc.resplitted
       /\ i < Len(desc.sub_bucket_counters)
       /\ desc.sub_bucket_counters[i + 1].is_outlier
    THEN "KmersTransformResplitter"
    ELSE "KmersTransformProcessor"

\* (0..(1 << second_buckets_count_log)).map(|i| ..generate_new_address()).collect():
\* the addresses and the value EXECUTOR_GLOBAL_ID is left with.
RECURSIVE GenerateAddresses(_, _, _, _, _)
GenerateAddresses(desc, n, i, id, acc) ==
    IF i = n THEN [addresses |-> acc, id |-> id]
    ELSE LET next == IdFetchAdd(id)
             exec == ExecutorAddress(next.old + 1, TypeIdOf(RouteOf(desc, i)), next.old)
         IN  GenerateAddresses(desc, n, i + 1, next.new, Append(acc, exec))

\* Mutant: the file is removed whatever KEEP_FILES holds.
RemoveFs_Always(keep_files) == TRUE

\* remove_fs: !KEEP_FILES.load(Ordering::Relaxed)
RemoveFs(keep_files) == ~keep_files

\* AsyncBinaryReader::new(&file.path, true, RemoveFileMode::Remove { remove_fs }, ..)
AsyncBinaryReader(path, remove_fs) ==
    [path |-> path, compressed |-> TRUE, remove_fs |-> remove_fs]

\* type BuildParams = (Arc<context>, AsyncBinaryReader, usize, Vec<ExecutorAddress>)
BuildParams(context, async_reader, second_buckets_count_log, addresses) ==
    << context, async_reader, second_buckets_count_log, addresses >>

None == << >>

\* KmersTransformReader::allocate_new, with the place the reader is at.
NewReader ==
    [pc |-> "new", context |-> None, second_buckets_count_log |-> 0, buffers |-> << >>,
     addresses |-> << >>, preprocessor |-> None, async_reader |-> None,
     reinit_params |-> None, left |-> << >>, sent_at_return |-> 0]

\* No group allocated yet for the file.
NoGroup(context) ==
    [state |-> "none", context |-> context, build |-> None, max_concurrency |-> 0,
     executors_initializer |-> << >>, keep_files |-> FALSE]

Contexts == { [max_second_buckets_count_log2 |-> l] : l \in 0 .. MaxLog }

\* Values of get_sequence_bucket: two are enough to fill one buffer and to use two.
SequenceBuckets == 0 .. 1

Descriptors ==
    { InputBucketDesc("bucket", cs, r) :
        cs \in UNION { [1 .. n -> {BucketCounter(TRUE), BucketCounter(FALSE)}] : n \in 0 .. MaxCounters },
        r \in BOOLEAN }

BucketFiles ==
    { BucketFile(d, rs, IF d.resplitted THEN 1 ELSE 0) :
        d \in Descriptors, rs \in UNION { [1 .. n -> SequenceBuckets] : n \in 0 .. MaxReads } }

-----------------------------------------------------------------------------
\* The other components before anything is asked of them.

IdleExec ==
    /\ EXECUTOR_GLOBAL_ID = 0
    /\ callers = << >>
    /\ generated = << >>

IdleReader ==
    /\ KEEP_FILES = FALSE
    /\ file = << >>
    /\ group = << >>
    /\ reader = << >>
    /\ packet_send = << >>

IdleDispatch == args = << >> /\ dispatched = << >>

IdleCutN == freezer = << >> /\ writer = << >>

IdleBuckets == bucket_reads = << >> /\ bucket_writers = << >>

IdleMapping == mapping_bucket = << >> /\ mapping_stream = << >>

IdleSequences == sequence_writer = << >> /\ sequence_reader = << >>

IdleColors ==
    colors = << >> /\ colors_storage = << >> /\ hash_keys = 0 /\ get_id_calls = << >>

IdleCodecs == IdleMapping /\ IdleSequences /\ IdleColors

IdleComponents == IdleExec /\ IdleReader /\ IdleDispatch /\ IdleCutN /\ IdleBuckets

IdleRest == IdleComponents /\ IdleCodecs

InitCommon ==
    /\ phase = "hashes_sorting"
    /\ status = "running"
    /\ links_inputs = EmptyBuckets
    /\ links_buckets = EmptyBuckets
    /\ final_buckets = EmptyBuckets
    /\ result_map_buckets = EmptyBuckets
    /\ wpc = [w \in Buckets |-> "todo"]
    /\ totsum = 0
    /\ ret = "pending"
    /\ last = NoPass
    /\ InitPackets
    /\ IdleRest

Init == hash_inputs \in ChainInputs /\ InitCommon

InitHash == hash_inputs \in (FreeInputs \cup ChainInputs) /\ InitCommon

FairInputs ==
    { Files(ChainEntries(n, closed, FALSE)) : n \in 1 .. MaxFairNodes, closed \in BOOLEAN }

InitFair == hash_inputs \in FairInputs /\ InitCommon

\* links_compaction takes the link bucket files as a parameter: any records can be in
\* them. Here bucket 0 holds up to two records keyed at entry 0 whose entries run over
\* two partial unitigs, one of them the key itself.
SeqsUpTo(S, n) == UNION { [1 .. k -> S] : k \in 0 .. n }

LinkFlags ==
    { f \in [is_forward : BOOLEAN, begin_sealed : BOOLEAN, end_sealed : BOOLEAN] :
        f.begin_sealed => f.end_sealed }

LinkRecords ==
    { UnitigLink(0, f, es) : f \in LinkFlags, es \in SeqsUpTo({Node(0), Node(1)}, MaxLinkLen) }

LinkInputs ==
    { [b \in Buckets |-> IF b = 0 THEN SetToBag(S) ELSE EmptyBag] :
        S \in {{}} \cup { {r1, r2} : r1 \in LinkRecords, r2 \in LinkRecords } }

InitLinks ==
    /\ phase = "links_compaction"
    /\ status = "running"
    /\ hash_inputs = [f \in Buckets |-> {}]
    /\ links_inputs \in LinkInputs
    /\ links_buckets = EmptyBuckets
    /\ final_buckets = EmptyBuckets
    /\ result_map_buckets = EmptyBuckets
    /\ wpc = [w \in Buckets |-> "todo"]
    /\ totsum = 0
    /\ ret = "pending"
    /\ last = NoPass
    /\ InitPackets
    /\ IdleRest

\* An open chain with a third entry on the hash of edge cut -> cut+1: a branch, which
\* leaves the two sides of that edge unlinked.
ForkEntries(n, cut) ==
    ChainEntries(n, FALSE, FALSE)
      \cup { HashEntry(cut + 1, Node(n - 1).bucket, Node(n - 1).index, "Forward") }

ForkInputs ==
    UNION { { Files(ForkEntries(n, cut)) : cut \in 0 .. (n - 2) } : n \in 2 .. MaxNodes }

InitForest == hash_inputs \in (ChainInputs \cup ForkInputs) /\ InitCommon

-----------------------------------------------------------------------------
\* A worker's pass over its sorted vec, group by group.

\* One group x of the vec, the coin it drew (FALSE when none was flipped), its outcome.
Step(x, coin, res) == [x |-> x, coin |-> res.flipped /\ coin, res |-> res]

Failed(res) == res.kind \in {"panic", "exit"}

\* Keys of the groups that follow the group of key k in the sorted vec.
KeysAfter(keys, k) == {j \in keys : j > k}

Min(S) == CHOOSE m \in S : \A j \in S : m <= j

HashGroupAt(w, h) == SetToBag({e \in hash_inputs[w] : e.hash = h})

LinkGroupAt(w, k) ==
    LET S == {r \in BagToSet(links_inputs[w]) : r.entry = k}
    IN  [r \in S |-> CopiesIn(r, links_inputs[w])]

\* Every way the loop of hashes_sorting can run over the groups left of file w.
RECURSIVE HashPasses(_, _, _)
HashPasses(w, keys, steps) ==
    IF keys = {} THEN { steps }
    ELSE LET h == Min(keys) IN
         UNION { HashPasses(w, keys \ {h}, Append(steps, Step(x, coin, HashGroup(x, coin)))) :
                    x \in Orderings(HashGroupAt(w, h)), coin \in BOOLEAN }

\* Every way the loop of links_compaction can run over the groups left of bucket w;
\* a failed assert or the exit(0) ends the pass.
RECURSIVE LinkPasses(_, _, _)
LinkPasses(w, keys, steps) ==
    IF keys = {} THEN { steps }
    ELSE IF steps # << >> /\ Failed(Last(steps).res) THEN { steps }
    ELSE LET k == Min(keys) IN
         UNION { LinkPasses(w, keys \ {k}, Append(steps, Step(x, coin, CompactGroup(w, x, coin)))) :
                    x \in Orderings(LinkGroupAt(w, k)), coin \in BOOLEAN }

RECURSIVE Concat(_, _)
Concat(steps, field) ==
    IF steps = << >> THEN << >>
    ELSE (CASE field = "links" -> Head(steps).res.links
            [] field = "finals" -> Head(steps).res.finals
            [] OTHER -> Head(steps).res.maps) \o Concat(Tail(steps), field)

RECURSIVE RemLinks(_)
RemLinks(steps) ==
    IF steps = << >> THEN 0 ELSE RemLinksIncr(Head(steps).res) + RemLinks(Tail(steps))

\* The records among outs that are addressed to bucket b.
RECURSIVE RecsFor(_, _)
RecsFor(outs, b) ==
    IF outs = << >> THEN EmptyBag
    ELSE (IF Head(outs).bucket = b THEN SetToBag({Head(outs).rec}) ELSE EmptyBag)
            (+) RecsFor(Tail(outs), b)

\* BucketsThreadDispatcher: add_element calls buffered, finalize sends them to their buckets.
Flush(buckets, outs) == [b \in Buckets |-> buckets[b] (+) RecsFor(outs, b)]

\* The status the process ends with: exit(0), or the code of a panic.
ExitStatus(st) == IF st = "exit0" THEN 0 ELSE 101

StatusAfter(steps) ==
    IF steps = << >> THEN "running"
    ELSE IF Last(steps).res.kind = "panic" THEN "panic"
    ELSE IF Last(steps).res.kind = "exit" THEN "exit0"
    ELSE "running"

-----------------------------------------------------------------------------
\* hashes_sorting

\* The closure run for one input file: read, sort, group, emit, finalize.
HashesSortingWorker(w) ==
    /\ phase = "hashes_sorting"
    /\ wpc[w] = "todo"
    /\ \E steps \in HashPasses(w, {e.hash : e \in hash_inputs[w]}, << >>) :
          /\ last' = [fn |-> "hashes_sorting", bucket |-> w, steps |-> steps]
          /\ links_buckets' = Flush(links_buckets, Concat(steps, "links"))
    /\ wpc' = [wpc EXCEPT ![w] = "done"]
    /\ UNCHANGED << phase, status, hash_inputs, links_inputs, final_buckets,
                    result_map_buckets, totsum, ret >>
    /\ UNCHANGED << packet_vars, rest_vars >>

\* links_buckets.finalize() once every worker is through.
HashesSortingReturn ==
    /\ phase = "hashes_sorting"
    /\ \A w \in Buckets : wpc[w] = "done"
    /\ phase' = "hashes_sorted"
    /\ UNCHANGED << status, hash_inputs, links_inputs, links_buckets, final_buckets, result_map_buckets,
                    wpc, totsum, ret, last >>
    /\ UNCHANGED << packet_vars, rest_vars >>

-----------------------------------------------------------------------------
\* links_compaction

\* The caller's loop: the link buckets returned last are the next input.
CallAgain == IF phase = "hashes_sorted" THEN TRUE ELSE phase = "compacted" /\ ret = "None"

\* Mutant: every bucket set is opened Plain.
StorageMode_Plain(name) == "Plain"

\* The StorageMode links_compaction gives each of its three bucket sets.
StorageMode(name) ==
    CASE name = "linksi" -> "Plain"
      [] name = "results_map" -> "AppendOrCreate"
      [] name = "unitigs_map" -> "AppendOrCreate"

\* MultiThreadBuckets::new over the files of that name: Plain overwrites them,
\* AppendOrCreate appends to them.
MultiThreadBuckets_new(existing, mode) ==
    IF mode = "Plain" THEN EmptyBuckets ELSE existing

\* The call: the three bucket sets are opened; no file is named linksi{elab_index} yet.
LinksCompactionCall ==
    /\ CallAgain
    /\ phase' = "links_compaction"
    /\ links_inputs' = links_buckets
    /\ links_buckets' = MultiThreadBuckets_new(EmptyBuckets, StorageMode("linksi"))
    /\ result_map_buckets' =
          MultiThreadBuckets_new(result_map_buckets, StorageMode("results_map"))
    /\ final_buckets' = MultiThreadBuckets_new(final_buckets, StorageMode("unitigs_map"))
    /\ totsum' = 0
    /\ ret' = "pending"
    /\ wpc' = [w \in Buckets |-> "todo"]
    /\ last' = NoPass
    /\ UNCHANGED << status, hash_inputs >>
    /\ UNCHANGED << packet_vars, rest_vars >>

\* Mutant: the counter is stored, not added to (an update of another worker is lost).
FetchAdd_Store(cur, n) == n

\* totsum.fetch_add(rem_links, Ordering::Relaxed)
FetchAdd(cur, n) == cur + n

\* The closure run for one input bucket; a failed pass leaves its buffers unwritten.
LinksCompactionWorker(w) ==
    /\ phase = "links_compaction"
    /\ status = "running"
    /\ wpc[w] = "todo"
    /\ \E steps \in LinkPasses(w, {r.entry : r \in BagToSet(links_inputs[w])}, << >>) :
          /\ last' = [fn |-> "links_compaction", bucket |-> w, steps |-> steps]
          /\ status' = StatusAfter(steps)
          /\ IF StatusAfter(steps) = "running"
             THEN /\ totsum' = FetchAdd(totsum, RemLinks(steps))
                  /\ links_buckets' = Flush(links_buckets, Concat(steps, "links"))
                  /\ final_buckets' = Flush(final_buckets, Concat(steps, "finals"))
                  /\ result_map_buckets' = Flush(result_map_buckets, Concat(steps, "maps"))
                  /\ wpc' = [wpc EXCEPT ![w] = "done"]
             ELSE UNCHANGED << totsum, links_buckets, final_buckets, result_map_buckets, wpc >>
    /\ UNCHANGED << phase, hash_inputs, links_inputs, ret >>
    /\ UNCHANGED << packet_vars, rest_vars >>

\* Mutant: Some is returned whatever the counter holds.
Returned_IgnoresTotsum(t) == "Some"

\* match totsum.load(Ordering::Relaxed) { 0 => Some(..), _ => None }
Returned(t) == IF t = 0 THEN "Some" ELSE "None"

\* Mutant: the function returns as soon as one worker is through.
LinksCompactionReturn_NoJoin ==
    /\ phase = "links_compaction"
    /\ status = "running"
    /\ \E w \in Buckets : wpc[w] = "done"
    /\ ret' = Returned(totsum)
    /\ phase' = "compacted"
    /\ UNCHANGED << status, hash_inputs, links_inputs, links_buckets, final_buckets,
                    result_map_buckets, wpc, totsum, last >>
    /\ UNCHANGED << packet_vars, rest_vars >>

\* After par_iter().for_each has returned: the buckets are finalized and handed over.
LinksCompactionReturn ==
    /\ phase = "links_compaction"
    /\ status = "running"
    /\ \A w \in Buckets : wpc[w] = "done"
    /\ ret' = Returned(totsum)
    /\ phase' = "compacted"
    /\ UNCHANGED << status, hash_inputs, links_inputs, links_buckets, final_buckets,
                    result_map_buckets, wpc, totsum, last >>
    /\ UNCHANGED << packet_vars, rest_vars >>

-----------------------------------------------------------------------------

NextHash ==
    \/ \E w \in Buckets : HashesSortingWorker(w)
    \/ HashesSortingReturn

Next ==
    \/ \E w \in Buckets : HashesSortingWorker(w)
    \/ HashesSortingReturn
    \/ LinksCompactionCall
    \/ \E w \in Buckets : LinksCompactionWorker(w)
    \/ LinksCompactionReturn

Spec == Init /\ [][Next]_vars

SpecHash == InitHash /\ [][NextHash]_vars

SpecForest == InitForest /\ [][Next]_vars

NextLinks ==
    \/ LinksCompactionCall
    \/ \E w \in Buckets : LinksCompactionWorker(w)
    \/ LinksCompactionReturn

SpecLinks == InitLinks /\ [][NextLinks]_vars

\* links_compaction called once more on the buckets of a call that returned Some.
LinksCompactionRerun ==
    /\ phase = "compacted"
    /\ ret = "Some"
    /\ phase' = "links_compaction"
    /\ links_inputs' = links_buckets
    /\ links_buckets' = MultiThreadBuckets_new(EmptyBuckets, StorageMode("linksi"))
    /\ result_map_buckets' =
          MultiThreadBuckets_new(result_map_buckets, StorageMode("results_map"))
    /\ final_buckets' = MultiThreadBuckets_new(final_buckets, StorageMode("unitigs_map"))
    /\ totsum' = 0
    /\ ret' = "pending"
    /\ wpc' = [w \in Buckets |-> "todo"]
    /\ last' = NoPass
    /\ UNCHANGED << status, hash_inputs >>
    /\ UNCHANGED << packet_vars, rest_vars >>

NextRerun ==
    \/ \E w \in Buckets : HashesSortingWorker(w)
    \/ HashesSortingReturn
    \/ LinksCompactionCall
    \/ \E w \in Buckets : LinksCompactionWorker(w)
    \/ LinksCompactionReturn
    \/ LinksCompactionRerun

SpecRerun == Init /\ [][NextRerun]_vars

-----------------------------------------------------------------------------
\* The compaction loop under fair scheduling and fair coins.

\* Two non-empty links keyed at the same entry of one bucket: the next pass fuses them.
LinksMeet(buckets) ==
    \E b \in Buckets : \E r1, r2 \in BagToSet(buckets[b]) :
        /\ r1.entries # << >> /\ r2.entries # << >>
        /\ r1.entry = r2.entry
        /\ (r1 # r2 \/ CopiesIn(r1, buckets[b]) > 1)

\* A pass whose coins come up so that two links meet.
CoinsMeet == \E w \in Buckets : LinksCompactionWorker(w) /\ LinksMeet(links_buckets')

\* Each thread flips its own generator and the flips are independent: an outcome of the
\* flips of a pass that is possible again and again comes up in the end.
FairCoins == SF_vars(CoinsMeet)

\* par_iter runs every worker; the caller loops while None is returned.
FairSchedule == WF_vars(Next)

SpecFair == InitFair /\ [][Next]_vars /\ FairSchedule /\ FairCoins

\* The same loop when nothing is known of the coins.
SpecAnyCoin == InitFair /\ [][Next]_vars /\ FairSchedule

-----------------------------------------------------------------------------
\* Packets: allocation, casts and drops.

pipeline_vars == << phase, hash_inputs, links_inputs, links_buckets, final_buckets,
                    result_map_buckets, wpc, totsum, ret, last >>

\* No packet holds the body and the pool does not have it.
Fresh(o) == packets[o].kind = "None" /\ o \notin pool.queue

AfterDrop(l, r, pl) ==
    [l EXCEPT !.sends = @ + r.sent, !.frees = @ + r.freed, !.touched = @ \/ (r.pool # pl)]

\* pool.alloc_packet(blocking)
AllocPacket(o, blocking) ==
    /\ status = "running"
    /\ packets[o].kind = "None"
    /\ CanAlloc(pool, blocking, o, Fresh(o))
    /\ pool' = alloc_object(pool, o)
    /\ packets' = [packets EXCEPT ![o] = alloc_packet(o)]
    /\ lifetimes' = [lifetimes EXCEPT ![o] = [NoLifetime EXCEPT !.pooled = TRUE]]
    /\ UNCHANGED << status, pipeline_vars, rest_vars >>

\* Packet::new_simple(data)
NewSimple(o, ty) ==
    /\ status = "running"
    /\ Fresh(o)
    /\ packets' = [packets EXCEPT ![o] = new_simple(o, ty)]
    /\ lifetimes' = [lifetimes EXCEPT ![o] = NoLifetime]
    /\ UNCHANGED << status, pool, pipeline_vars, rest_vars >>

\* packet.upcast()
Upcast(o) ==
    /\ status = "running"
    /\ packets[o].kind = "Packet"
    /\ lifetimes[o].casts < MaxCasts
    /\ LET r == forget(packets[o], pool)
       IN  /\ pool' = r.pool
           /\ packets' = [packets EXCEPT ![o] = upcast(@)]
           /\ lifetimes' = [lifetimes EXCEPT
                               ![o] = [AfterDrop(@, r, pool) EXCEPT !.casts = @ + 1,
                                                                     !.orig = packets[o]]]
    /\ UNCHANGED << status, pipeline_vars, rest_vars >>

\* packet_any.downcast::<ty>(); unwrap() panics on a body of another type, and the
\* PacketAny dropped by the unwinding panics again.
Downcast(o, ty) ==
    /\ status = "running"
    /\ packets[o].kind = "PacketAny"
    /\ IF packets[o].ty = ty
       THEN LET r == forget(packets[o], pool)
            IN  /\ pool' = r.pool
                /\ packets' = [packets EXCEPT ![o] = downcast(@, ty)]
                /\ lifetimes' = [lifetimes EXCEPT ![o] = AfterDrop(@, r, pool)]
                /\ UNCHANGED status
       ELSE /\ status' = "panic"
            /\ packets' = [packets EXCEPT ![o] = Leaked(@)]
            /\ UNCHANGED << pool, lifetimes >>
    /\ UNCHANGED << pipeline_vars, rest_vars >>

\* A Packet<T> goes out of scope.
DropOfPacket(o) ==
    /\ status = "running"
    /\ packets[o].kind = "Packet"
    /\ LET r == DropPacket(packets[o], pool)
       IN  /\ pool' = r.pool
           /\ lifetimes' = [lifetimes EXCEPT ![o] = [AfterDrop(@, r, pool) EXCEPT !.dropped = TRUE]]
    /\ packets' = [packets EXCEPT ![o] = NoPacket]
    /\ UNCHANGED << status, pipeline_vars, rest_vars >>

\* A PacketAny goes out of scope: panic!("Cannot drop packet any!").
DropOfPacketAny(o) ==
    /\ status = "running"
    /\ packets[o].kind = "PacketAny"
    /\ status' = "panic"
    /\ packets' = [packets EXCEPT ![o] = Leaked(@)]
    /\ UNCHANGED << pool, lifetimes, pipeline_vars, rest_vars >>

NextPacket ==
    \/ \E o \in Objects, blocking \in BOOLEAN : AllocPacket(o, blocking)
    \/ \E o \in Objects, ty \in PacketTypes : NewSimple(o, ty)
    \/ \E o \in Objects : Upcast(o)
    \/ \E o \in Objects, ty \in PacketTypes : Downcast(o, ty)
    \/ \E o \in Objects : DropOfPacket(o)
    \/ \E o \in Objects : DropOfPacketAny(o)

InitPacket == hash_inputs = [f \in Buckets |-> {}] /\ InitCommon

SpecPacket == InitPacket /\ [][NextPacket]_vars

\* The drop of a pooled packet as other threads see it: send_any is two steps, and
\* between them the count is already lower while the body is not yet in the channel.

\* self.1.fetch_sub(1, Ordering::Relaxed)
fetch_sub(pl) == [pl EXCEPT !.outstanding = @ - 1]

\* let _ = self.0.try_send(..)
offer(pl, object) == [pl EXCEPT !.queue = try_send(@, object)]

DropFetchSub(o) ==
    /\ status = "running"
    /\ packets[o].kind = "Packet"
    /\ packets[o].returner = "Some"
    /\ pool' = fetch_sub(pool)
    /\ packets' = [packets EXCEPT ![o] = [@ EXCEPT !.kind = "Dropping"]]
    /\ lifetimes' = [lifetimes EXCEPT ![o] = [@ EXCEPT !.sends = @ + 1]]
    /\ UNCHANGED << status, pipeline_vars, rest_vars >>

DropTrySend(o) ==
    /\ status = "running"
    /\ packets[o].kind = "Dropping"
    /\ pool' = offer(pool, packets[o].object)
    /\ packets' = [packets EXCEPT ![o] = NoPacket]
    /\ lifetimes' = [lifetimes EXCEPT
                        ![o] = [@ EXCEPT !.dropped = TRUE,
                                         !.frees = IF packets[o].object \in pool'.queue THEN 0 ELSE 1,
                                         !.touched = TRUE]]
    /\ UNCHANGED << status, pipeline_vars, rest_vars >>

\* Threads that allocate with STRICT_POOL_ALLOC, pass packets on and drop them.
NextPool ==
    \/ \E o \in Objects : AllocPacket(o, TRUE)
    \/ \E o \in Objects : Upcast(o)
    \/ \E o \in Objects : Downcast(o, "T")
    \/ \E o \in Objects : DropFetchSub(o)
    \/ \E o \in Objects : DropTrySend(o)

SpecPool == InitPacket /\ [][NextPool]_vars

-----------------------------------------------------------------------------
\* Executor::generate_new_address called from several threads.

\* The values of every component but the executor addresses.
outside_exec ==
    << status, pipeline_vars, packet_vars, codec_vars, reader_vars, dispatch_vars, cutn_vars, bucket_vars >>

\* executor_keeper: Arc::new(ExecutorDropper::new())
GenKeeper(t, Self, k) ==
    /\ callers[t].pc = "idle"
    /\ Len(generated) + Cardinality({u \in Threads : callers[u].pc = "keeper"}) < MaxAddresses
    /\ k \notin KeepersInUse(generated, callers)
    /\ callers' = [callers EXCEPT ![t] = [pc |-> "keeper", Self |-> Self, keeper |-> k]]
    /\ UNCHANGED << EXECUTOR_GLOBAL_ID, generated, outside_exec >>

\* executor_type_id, executor_internal_id, and the return of the address.
GenFetchAdd(t) ==
    /\ callers[t].pc = "keeper"
    /\ LET id == IdFetchAdd(EXECUTOR_GLOBAL_ID)
           exec == ExecutorAddress(callers[t].keeper, TypeIdOf(callers[t].Self), id.old)
       IN  /\ EXECUTOR_GLOBAL_ID' = id.new
           /\ generated' = Append(generated, Generated(callers[t].Self, exec))
    /\ callers' = [callers EXCEPT ![t] = IdleCaller]
    /\ UNCHANGED outside_exec

\* address.clone()
CloneAddress(i) ==
    /\ generated[i].clones > 0
    /\ generated[i].clones < MaxThreads
    /\ generated' = [generated EXCEPT ![i].clones = @ + 1]
    /\ UNCHANGED << EXECUTOR_GLOBAL_ID, callers, outside_exec >>

\* An address or a clone of it is dropped; the last one frees the keeper.
DropAddress(i) ==
    /\ generated[i].clones > 0
    /\ generated' = [generated EXCEPT ![i].clones = @ - 1]
    /\ UNCHANGED << EXECUTOR_GLOBAL_ID, callers, outside_exec >>

NextExec ==
    \/ \E t \in Threads, Self \in ExecutorTypes, k \in Keepers : GenKeeper(t, Self, k)
    \/ \E t \in Threads : GenFetchAdd(t)
    \/ \E i \in DOMAIN generated : CloneAddress(i)
    \/ \E i \in DOMAIN generated : DropAddress(i)

\* The pipeline functions and the pool at rest.
IdlePipeline ==
    /\ hash_inputs = [f \in Buckets |-> {}]
    /\ phase = "hashes_sorting"
    /\ status = "running"
    /\ links_inputs = EmptyBuckets
    /\ links_buckets = EmptyBuckets
    /\ final_buckets = EmptyBuckets
    /\ result_map_buckets = EmptyBuckets
    /\ wpc = [w \in Buckets |-> "todo"]
    /\ totsum = 0
    /\ ret = "pending"
    /\ last = NoPass
    /\ InitPackets

InitExec ==
    /\ IdlePipeline
    /\ IdleCodecs
    /\ EXECUTOR_GLOBAL_ID = 0
    /\ callers = [t \in Threads |-> IdleCaller]
    /\ generated = << >>
    /\ IdleReader /\ IdleDispatch /\ IdleCutN /\ IdleBuckets

SpecExec == InitExec /\ [][NextExec]_vars

-----------------------------------------------------------------------------
\* KmersTransformReader: one group after the other.

\* The values of every component but the reader and the id counter.
outside_reader ==
    << status, pipeline_vars, packet_vars, codec_vars, callers, generated, dispatch_vars, cutn_vars,
       bucket_vars >>

\* 1 << second_buckets_count_log
Shl(log) == 2 ^ log

\* The flag is a global atomic: it can be stored to at any time.
SetKeepFiles(b) ==
    /\ KEEP_FILES # b
    /\ KEEP_FILES' = b
    /\ UNCHANGED << EXECUTOR_GLOBAL_ID, file, group, reader, packet_send, outside_reader >>

\* KmersTransformReader::allocate_new_group
AllocateNewGroup ==
    /\ group.state = "none"
    /\ reader.pc = "new"
    /\ LET second_buckets_count_log == group.context.max_second_buckets_count_log2
           made == GenerateAddresses(file.desc, Shl(second_buckets_count_log), 0,
                                     EXECUTOR_GLOBAL_ID, << >>)
           async_reader == AsyncBinaryReader(file.desc.path, RemoveFs(KEEP_FILES))
       IN  /\ EXECUTOR_GLOBAL_ID' = made.id
           /\ group' = [group EXCEPT
                           !.state = "allocated",
                           !.executors_initializer = Append(@, made.addresses),
                           !.build = BuildParams(group.context, async_reader,
                                                 second_buckets_count_log, made.addresses),
                           !.max_concurrency = 4,
                           !.keep_files = KEEP_FILES]
    /\ UNCHANGED << KEEP_FILES, file, reader, packet_send, outside_reader >>

\* AsyncBinaryReader::is_finished on a reader that has read nothing yet.
IsFinished(f) == f.reads = << >>

\* The drop of an AsyncBinaryReader closes the file and removes it when told to.
CloseFile(f, async_reader) ==
    IF async_reader = None THEN f
    ELSE [f EXCEPT !.on_disk = @ /\ ~async_reader.remove_fs]

\* Handles to an address that the reader holds: in self.addresses and in reinit_params.3.
Count(seq, x) == Cardinality({ i \in DOMAIN seq : seq[i] = x })

Handles(r, address) ==
    Count(r.addresses, address)
        + (IF r.reinit_params = None THEN 0 ELSE Count(r.reinit_params[4], address))

\* packet_send(address, packet) as the log keeps it.
Send(r, address, packet) ==
    [address |-> address, packet |-> packet, handles |-> Handles(r, address)]

\* decode_all_bucket_items: the records of the file in file order, each with its
\* position and the value get_sequence_bucket has for it.
decode_all_bucket_items(reads) == [i \in DOMAIN reads |-> << i, reads[i] >>]

\* Mutant: the final loop sends every buffer.
NotEmpty_Always(packet) == TRUE

\* if packet.reads.len() > 0
NotEmpty(packet) == Len(packet) > 0

\* Mutant: finished while it holds the reader of the file.
is_finished_HasReader(r) == r.async_reader # None

\* KmersTransformReader::is_finished
is_finished(r) == r.context # None

\* Mutant: the early return comes after the addresses are stored.
EarlyReturn_KeepsAddresses(r, reinit_params) ==
    [r EXCEPT !.context = reinit_params[1], !.addresses = reinit_params[4]]

\* self.context = Some(reinit_params.0); if reinit_params.1.is_finished() { return; }
EarlyReturn(r, reinit_params) == [r EXCEPT !.context = reinit_params[1]]

\* pre_execute up to the start of decode_all_bucket_items, or to the early return, at
\* which reinit_params and the AsyncBinaryReader in it are dropped.
PreExecuteBegin ==
    /\ group.state = "allocated"
    /\ reader.pc = "new"
    /\ LET reinit_params == group.build
       IN  IF IsFinished(file)
           THEN /\ reader' = [EarlyReturn(reader, reinit_params) EXCEPT
                                 !.pc = "pre_executed",
                                 !.sent_at_return = Len(packet_send)]
                /\ file' = CloseFile(file, reinit_params[2])
           ELSE /\ reader' = [reader EXCEPT
                                 !.context = reinit_params[1],
                                 !.second_buckets_count_log = reinit_params[3],
                                 !.buffers = @ \o [i \in 1 .. Shl(reinit_params[3]) |-> << >>],
                                 !.addresses = reinit_params[4],
                                 !.preprocessor = "Some",
                                 !.async_reader = reinit_params[2],
                                 !.reinit_params = reinit_params,
                                 !.left = decode_all_bucket_items(file.reads),
                                 !.pc = "reading"]
                /\ UNCHANGED file
    /\ group' = [group EXCEPT !.state = "running", !.build = None]
    /\ UNCHANGED << EXECUTOR_GLOBAL_ID, KEEP_FILES, packet_send, outside_reader >>

\* The closure given to decode_all_bucket_items, for one read.
ReadStep ==
    /\ reader.pc = "reading"
    /\ reader.left # << >>
    /\ LET read_info == Head(reader.left)
           bucket == (read_info[2] % Shl(reader.second_buckets_count_log)) + 1
           pushed == Append(reader.buffers[bucket], read_info)
       IN  IF Len(pushed) = BufferCap
           THEN /\ packet_send' =
                       Append(packet_send, Send(reader, reader.addresses[bucket], pushed))
                /\ reader' = [reader EXCEPT !.buffers[bucket] = << >>, !.left = Tail(@)]
           ELSE /\ reader' = [reader EXCEPT !.buffers[bucket] = pushed, !.left = Tail(@)]
                /\ UNCHANGED packet_send
    /\ UNCHANGED << EXECUTOR_GLOBAL_ID, KEEP_FILES, file, group, outside_reader >>

\* One turn of for (packet, address) in buffers.drain(..).zip(addresses.drain(..)).
DrainStep ==
    /\ reader.pc = "reading"
    /\ reader.left = << >>
    /\ reader.buffers # << >>
    /\ reader.addresses # << >>
    /\ LET packet == Head(reader.buffers)
           address == Head(reader.addresses)
       IN  packet_send' = IF NotEmpty(packet)
                          THEN Append(packet_send, Send(reader, address, packet))
                          ELSE packet_send
    /\ reader' = [reader EXCEPT !.buffers = Tail(@), !.addresses = Tail(@)]
    /\ UNCHANGED << EXECUTOR_GLOBAL_ID, KEEP_FILES, file, group, outside_reader >>

\* The end of the loop (the drains drop what is left) and the return of pre_execute.
PreExecuteReturn ==
    /\ reader.pc = "reading"
    /\ reader.left = << >>
    /\ reader.buffers = << >> \/ reader.addresses = << >>
    /\ reader' = [reader EXCEPT !.buffers = << >>, !.addresses = << >>,
                                !.reinit_params = None,
                                !.pc = "pre_executed",
                                !.sent_at_return = Len(packet_send)]
    /\ UNCHANGED << EXECUTOR_GLOBAL_ID, KEEP_FILES, file, group, packet_send, outside_reader >>

\* KmersTransformReader::finalize
Finalize ==
    /\ reader.pc = "pre_executed"
    /\ reader' = [reader EXCEPT !.pc = IF Len(reader.buffers) = 0 THEN "finalized" ELSE "panic"]
    /\ UNCHANGED << EXECUTOR_GLOBAL_ID, KEEP_FILES, file, group, packet_send, outside_reader >>

\* KmersTransformReader::execute: panic!("Multiple packet processing not supported!")
Execute ==
    /\ reader.pc = "pre_executed"
    /\ reader' = [reader EXCEPT !.pc = "execute_panic"]
    /\ UNCHANGED << EXECUTOR_GLOBAL_ID, KEEP_FILES, file, group, packet_send, outside_reader >>

\* KmersTransformReader::reset, when the executor goes back to its pool.
Reset ==
    /\ reader.pc = "finalized"
    /\ reader' = [reader EXCEPT !.context = None, !.buffers = << >>, !.addresses = << >>,
                                !.preprocessor = None, !.async_reader = None,
                                !.pc = "reset"]
    /\ file' = CloseFile(file, reader.async_reader)
    /\ UNCHANGED << EXECUTOR_GLOBAL_ID, KEEP_FILES, group, packet_send, outside_reader >>

\* The reads of the packets sent to resplitter addresses.
RECURSIVE Resplit(_)
Resplit(sends) ==
    IF sends = << >> THEN << >>
    ELSE (IF Head(sends).address.executor_type_id = TypeIdOf("KmersTransformResplitter")
          THEN [i \in DOMAIN Head(sends).packet |-> Head(sends).packet[i][2]]
          ELSE << >>) \o Resplit(Tail(sends))

\* The resplitter writes the records it was sent to a new bucket, whatever its counters,
\* and feeds its descriptor, marked resplitted, to the reader.
Resplitted ==
    /\ reader.pc = "reset"
    /\ Resplit(packet_send) # << >>
    /\ \E d \in Descriptors :
          /\ d.resplitted
          /\ file' = BucketFile(d, Resplit(packet_send), file.depth + 1)
    /\ group' = NoGroup(group.context)
    /\ reader' = NewReader
    /\ packet_send' = << >>
    /\ UNCHANGED << EXECUTOR_GLOBAL_ID, KEEP_FILES, outside_reader >>

NextReader ==
    \/ \E b \in BOOLEAN : SetKeepFiles(b)
    \/ AllocateNewGroup
    \/ PreExecuteBegin
    \/ ReadStep
    \/ DrainStep
    \/ PreExecuteReturn
    \/ Execute
    \/ Finalize
    \/ Reset
    \/ Resplitted

InitReader ==
    /\ IdlePipeline
    /\ IdleCodecs
    /\ IdleExec
    /\ KEEP_FILES \in BOOLEAN
    /\ file \in BucketFiles
    /\ group \in { NoGroup(c) : c \in Contexts }
    /\ reader = NewReader
    /\ packet_send = << >>
    /\ IdleDispatch /\ IdleCutN /\ IdleBuckets

SpecReader == InitReader /\ [][NextReader]_vars

-----------------------------------------------------------------------------
\* dispatch_querier_hash_type: one call per initial state.

outside_dispatch ==
    << status, pipeline_vars, packet_vars, codec_vars, exec_vars, reader_vars, cutn_vars, bucket_vars >>

HashTypes == {"Auto", "SeqHash", "RabinKarp32", "RabinKarp64", "RabinKarp128"}

\* QueryArgs, the fields the dispatch reads.
QueryArgs(hash_type, klen, forward_only) ==
    [hash_type |-> hash_type, klen |-> klen, forward_only |-> forward_only]

\* A hash factory of crate::hashes: module::uN::Factory.
Factory(module, bits, name) == [module |-> module, bits |-> bits, name |-> name]

\* run_querier_from_args::<BucketingHash, MergingHash, ColorsImpl, BUCKETS_COUNT>(args)
run_querier_from_args(BucketingHash, MergingHash, a) ==
    [BucketingHash |-> BucketingHash, MergingHash |-> MergingHash, args |-> a]

\* Mutant: Auto resolves to SeqHash whatever klen.
MatchAuto_NoLimit(a) ==
    IF a.hash_type = "Auto" THEN "SeqHash" ELSE a.hash_type

\* let hash_type = match args.common_args.hash_type { .. }
MatchAuto(a) ==
    IF a.hash_type = "Auto"
    THEN IF a.klen <= 64 THEN "SeqHash" ELSE "RabinKarp128"
    ELSE a.hash_type

PanicSeqHash == [panic |-> "Cannot use sequence hash for k > 64!"]
Unreachable == [panic |-> "unreachable"]

\* The arm HashType::SeqHash.
SeqHashArm(a) ==
    LET k == a.klen
    IN  IF k <= 8
        THEN IF a.forward_only
             THEN run_querier_from_args("CanonicalNtHashIteratorFactory",
                      Factory("cn_seqhash", 16, "CanonicalSeqHashFactory"), a)
             ELSE run_querier_from_args("CanonicalNtHashIteratorFactory",
                      Factory("cn_seqhash", 16, "CanonicalSeqHashFactory"), a)
        ELSE IF k <= 16
        THEN IF a.forward_only
             THEN run_querier_from_args("ForwardNtHashIteratorFactory",
                      Factory("fw_seqhash", 32, "ForwardSeqHashFactory"), a)
             ELSE run_querier_from_args("CanonicalNtHashIteratorFactory",
                      Factory("cn_seqhash", 32, "CanonicalSeqHashFactory"), a)
        ELSE IF k <= 32
        THEN IF a.forward_only
             THEN run_querier_from_args("ForwardNtHashIteratorFactory",
                      Factory("fw_seqhash", 64, "ForwardSeqHashFactory"), a)
             ELSE run_querier_from_args("CanonicalNtHashIteratorFactory",
                      Factory("cn_seqhash", 64, "CanonicalSeqHashFactory"), a)
        ELSE IF k <= 64
        THEN IF a.forward_only
             THEN run_querier_from_args("ForwardNtHashIteratorFactory",
                      Factory("fw_seqhash", 128, "ForwardSeqHashFactory"), a)
             ELSE run_querier_from_args("CanonicalNtHashIteratorFactory",
                      Factory("cn_seqhash", 128, "CanonicalSeqHashFactory"), a)
        ELSE PanicSeqHash

\* The arms HashType::RabinKarp32, RabinKarp64 and RabinKarp128.
RabinKarpArm(a, bits) ==
    IF a.forward_only
    THEN run_querier_from_args("ForwardNtHashIteratorFactory",
             Factory("fw_rkhash", bits, "ForwardRabinKarpHashFactory"), a)
    ELSE run_querier_from_args("CanonicalNtHashIteratorFactory",
             Factory("cn_rkhash", bits, "CanonicalRabinKarpHashFactory"), a)

\* match hash_type { .. }
MatchHashType(hash_type, a) ==
    CASE hash_type = "SeqHash" -> SeqHashArm(a)
      [] hash_type = "RabinKarp32" -> RabinKarpArm(a, 32)
      [] hash_type = "RabinKarp64" -> RabinKarpArm(a, 64)
      [] hash_type = "RabinKarp128" -> RabinKarpArm(a, 128)
      [] hash_type = "Auto" -> Unreachable

Called == [pc |-> "called", hash_type |-> None, runs |-> << >>, panic |-> None]

\* The first match.
ResolveHashType ==
    /\ dispatched # << >>
    /\ dispatched.pc = "called"
    /\ dispatched' = [dispatched EXCEPT !.pc = "resolved", !.hash_type = MatchAuto(args)]
    /\ UNCHANGED << args, outside_dispatch >>

\* The second match: a run of the querier, or a panic.
RunQuerier ==
    /\ dispatched # << >>
    /\ dispatched.pc = "resolved"
    /\ LET arm == MatchHashType(dispatched.hash_type, args)
       IN  dispatched' =
              IF "panic" \in DOMAIN arm
              THEN [dispatched EXCEPT !.pc = "panic", !.panic = arm.panic]
              ELSE [dispatched EXCEPT !.pc = "returned", !.runs = Append(@, arm)]
    /\ UNCHANGED << args, outside_dispatch >>

NextDispatch == ResolveHashType \/ RunQuerier

InitDispatch ==
    /\ IdlePipeline
    /\ IdleCodecs
    /\ IdleExec /\ IdleReader
    /\ args \in { QueryArgs(h, k, f) : h \in HashTypes, k \in 1 .. MaxK, f \in BOOLEAN }
    /\ dispatched = Called
    /\ IdleCutN /\ IdleBuckets

SpecDispatch == InitDispatch /\ [][NextDispatch]_vars

-----------------------------------------------------------------------------
\* Pipeline::cut_n: the closure of freezer.for_each, once per read.

outside_cutn ==
    << status, pipeline_vars, packet_vars, codec_vars, exec_vars, reader_vars, dispatch_vars, bucket_vars >>

Bases == {"A", "C", "N"}

Reads == UNION { [1 .. n -> Bases] : n \in 0 .. MaxReadLen }

\* read.split(|x| *x == b'N'): the slices between the separators, from position i on,
\* cur being the slice begun; a separator ends a slice and the end of the read ends
\* the last one, empty slices included.
RECURSIVE Split(_, _, _)
Split(read, i, cur) ==
    IF i > Len(read)
    THEN << cur >>
    ELSE IF read[i] = "N"
         THEN << cur >> \o Split(read, i + 1, << >>)
         ELSE Split(read, i + 1, Append(cur, read[i]))

\* Mutant: a record has to be longer than k.
Skipped_AtK(record, k) == Len(record) <= k

\* if record.len() < k { continue; }
Skipped(record, k) == Len(record) < k

\* The body of the for loop over the records of one read.
RECURSIVE AddRecords(_, _, _)
AddRecords(w, records, k) ==
    IF records = << >>
    THEN w
    ELSE AddRecords(IF Skipped(Head(records), k) THEN w ELSE Append(w, Head(records)),
                    Tail(records), k)

\* The closure given to freezer.for_each, for the next read.
CutRead ==
    /\ freezer # << >>
    /\ freezer.next <= Len(freezer.reads)
    /\ writer' = AddRecords(writer, Split(freezer.reads[freezer.next], 1, << >>), freezer.k)
    /\ freezer' = [freezer EXCEPT !.next = @ + 1]
    /\ UNCHANGED outside_cutn

NextCutN == CutRead

InitCutN ==
    /\ IdlePipeline
    /\ IdleCodecs
    /\ IdleExec /\ IdleReader /\ IdleDispatch
    /\ freezer \in { [reads |-> << read >>, k |-> k, next |-> 1] :
                        read \in Reads, k \in 1 .. MaxCutK }
    /\ writer = << >>
    /\ IdleBuckets

SpecCutN == InitCutN /\ [][NextCutN]_vars

-----------------------------------------------------------------------------
\* Pipeline::make_buckets: the closure of freezer.for_each, once per read.  A read is
\* given by the hashes of its windows, NtHashIterator yielding one per position.

outside_buckets ==
    << status, pipeline_vars, packet_vars, codec_vars, exec_vars, reader_vars, dispatch_vars, cutn_vars >>

\* std::u64::MAX scaled to MaxWindowHash; MINIMIZER_THRESHOLD_VALUE scaled with it, so
\* that the largest hash value is not below the threshold.
WindowHashes == 0 .. MaxWindowHash
MINIMIZER_THRESHOLD_VALUE == MaxWindowHash

HashedReads == UNION { [1 .. n -> WindowHashes] : n \in 1 .. MaxWindows }

\* hashes.iter_enumerate(): (hash, position) pairs, positions from 0.
iter_enumerate(hashes) == { << hashes[p + 1], p >> : p \in 0 .. Len(hashes) - 1 }

\* The order of tuples: by the first component, then by the second.
TupleLess(a, b) == a[1] < b[1] \/ (a[1] = b[1] /\ a[2] <= b[2])

\* Iterator::min
TupleMin(S) == CHOOSE m \in S : \A t \in S : TupleLess(m, t)

\* compute_chosen_bucket: None, or the bucket and the position of the window.
compute_chosen_bucket(hashes, nbuckets) ==
    LET mapped == { << v[1] % nbuckets, v[2] >> :
                       v \in { w \in iter_enumerate(hashes) : w[1] < MINIMIZER_THRESHOLD_VALUE } }
    IN  IF mapped = {} THEN None ELSE << TupleMin(mapped) >>

\* if let Some(chosen) = .. { writers[chosen.0].add_read(read); }
add_read(writers, chosen, read) ==
    IF chosen = None
    THEN writers
    ELSE [writers EXCEPT ![chosen[1][1]] = Append(@, read)]

\* The closure given to freezer.for_each, for the next read.
BucketRead ==
    /\ bucket_reads # << >>
    /\ bucket_reads.next <= Len(bucket_reads.reads)
    /\ LET read == bucket_reads.reads[bucket_reads.next]
           chosen == compute_chosen_bucket(read, bucket_reads.numbuckets)
       IN  /\ bucket_writers' = add_read(bucket_writers, chosen, read)
           /\ bucket_reads' = [bucket_reads EXCEPT !.next = @ + 1,
                                                   !.chosen = Append(@, chosen)]
    /\ UNCHANGED outside_buckets

NextBuckets == BucketRead

InitBuckets ==
    /\ IdlePipeline
    /\ IdleCodecs
    /\ IdleExec /\ IdleReader /\ IdleDispatch /\ IdleCutN
    /\ \E read \in HashedReads, n \in 1 .. MaxBucketCount :
          /\ bucket_reads = [reads |-> << read >>, numbuckets |-> n, next |-> 1,
                             chosen |-> << >>]
          /\ bucket_writers = [b \in 0 .. n - 1 |-> << >>]

SpecBuckets == InitBuckets /\ [][NextBuckets]_vars

-----------------------------------------------------------------------------
\* LinkMapping: write_to into a bucket, from_stream over its bytes.

outside_mapping ==
    << status, pipeline_vars, packet_vars, exec_vars, reader_vars, dispatch_vars, cutn_vars,
       bucket_vars, sequence_vars, colors_vars >>

\* u64 values with varints of one, two and three bytes.
VarintValues == {0, 127, 128, 16384}

\* encode_varint: unsigned LEB128, 7 data bits per byte, least significant group
\* first, the top bit set on every byte but the last.
RECURSIVE encode_varint(_)
encode_varint(value) ==
    IF value < 128
    THEN << value >>
    ELSE << 128 + (value % 128) >> \o encode_varint(value \div 128)

\* decode_varint over the bytes from pos on: None when the bytes end before a byte
\* without the top bit, else the value and the position after it.
RECURSIVE decode_varint(_, _, _, _)
decode_varint(bytes, pos, shift, acc) ==
    IF pos > Len(bytes)
    THEN None
    ELSE LET b == bytes[pos]
             value == acc + (b % 128) * (2 ^ shift)
         IN  IF b < 128
             THEN << value, pos + 1 >>
             ELSE decode_varint(bytes, pos + 1, shift + 7, value)

LinkMappingRecords == { LinkMapping(b, e) : b, e \in VarintValues }

\* impl BucketWriter for LinkMapping: write_to
write_to(self, bytes) == bytes \o encode_varint(self.bucket) \o encode_varint(self.entry)

\* Mutant: the two varints are read into the other field.
from_stream_Swapped(bytes, pos) ==
    LET bucket == decode_varint(bytes, pos, 0, 0)
    IN  IF bucket = None
        THEN None
        ELSE LET entry == decode_varint(bytes, bucket[2], 0, 0)
             IN  IF entry = None
                 THEN None
                 ELSE << LinkMapping(entry[1], bucket[1]), entry[2] >>

\* LinkMapping::from_stream: None, or the record and the position after it.
from_stream(bytes, pos) ==
    LET bucket == decode_varint(bytes, pos, 0, 0)
    IN  IF bucket = None
        THEN None
        ELSE LET entry == decode_varint(bytes, bucket[2], 0, 0)
             IN  IF entry = None
                 THEN None
                 ELSE << LinkMapping(bucket[1], entry[1]), entry[2] >>

\* write_to for the next record.
WriteMapping ==
    /\ mapping_bucket # << >>
    /\ mapping_bucket.next <= Len(mapping_bucket.records)
    /\ mapping_bucket' =
          [mapping_bucket EXCEPT
              !.bytes = write_to(mapping_bucket.records[mapping_bucket.next], @),
              !.next = @ + 1]
    /\ UNCHANGED << mapping_stream, outside_mapping >>

\* from_stream over the finished bucket, until it returns None.
ReadMapping ==
    /\ mapping_bucket # << >>
    /\ mapping_bucket.next > Len(mapping_bucket.records)
    /\ ~mapping_stream.ended
    /\ LET res == from_stream(mapping_bucket.bytes, mapping_stream.pos)
       IN  mapping_stream' =
              IF res = None
              THEN [mapping_stream EXCEPT !.ended = TRUE]
              ELSE [mapping_stream EXCEPT !.decoded = Append(@, res[1]), !.pos = res[2]]
    /\ UNCHANGED << mapping_bucket, outside_mapping >>

NextMapping == WriteMapping \/ ReadMapping

InitMapping ==
    /\ IdlePipeline
    /\ IdleComponents
    /\ \E records \in UNION { [1 .. n -> LinkMappingRecords] : n \in 0 .. MaxMappings } :
          mapping_bucket = [records |-> records, next |-> 1, bytes |-> << >>]
    /\ mapping_stream = [pos |-> 1, decoded |-> << >>, ended |-> FALSE]
    /\ IdleSequences /\ IdleColors

SpecMapping == InitMapping /\ [][NextMapping]_vars

-----------------------------------------------------------------------------
\* The extra data (u64, CX, LX) of the sequences of a StructSeqBinaryWriter: written
\* into the temp buffer, flushed in blocks, decoded block by block.

outside_sequences ==
    << status, pipeline_vars, packet_vars, exec_vars, reader_vars, dispatch_vars, cutn_vars,
       bucket_vars, mapping_vars, colors_vars >>

\* Values of the three components: sequence_index, color info, links info.
SequenceIndexes == {0, 128}
ColorValues == 0 .. 2
LinksValues == {0, 1}

ExtraData == SequenceIndexes \X ColorValues \X LinksValues

\* A CX that compresses consecutively: the color is written as its distance from the
\* last color, and the last color is carried.
InitialLastData == 0
CX_encode_extended(cx, last_data) ==
    encode_varint((cx + Cardinality(ColorValues) - last_data) % Cardinality(ColorValues))
CX_decode_extended(bytes, pos, last_data) ==
    LET delta == decode_varint(bytes, pos, 0, 0)
    IN  IF delta = None
        THEN None
        ELSE << (last_data + delta[1]) % Cardinality(ColorValues), delta[2] >>
CX_obtain_last_data(cx, last_data) == cx

\* An LX without carried data.
LX_encode_extended(lx) == encode_varint(lx)
LX_decode_extended(bytes, pos) == decode_varint(bytes, pos, 0, 0)

\* encode_extended of (u64, CX, LX): the bytes written.
encode_extended(self, last_data) ==
    encode_varint(self[1]) \o CX_encode_extended(self[2], last_data)
        \o LX_encode_extended(self[3])

\* Mutant: the links info is decoded before the color info.
decode_extended_LinksFirst(bytes, pos, last_data) ==
    LET index == decode_varint(bytes, pos, 0, 0)
    IN  IF index = None
        THEN None
        ELSE LET lx == LX_decode_extended(bytes, index[2])
             IN  IF lx = None
                 THEN None
                 ELSE LET cx == CX_decode_extended(bytes, lx[2], last_data)
                      IN  IF cx = None
                          THEN None
                          ELSE << << index[1], cx[1], lx[1] >>, cx[2] >>

\* decode_extended of (u64, CX, LX): None, or the record and the position after it.
decode_extended(bytes, pos, last_data) ==
    LET index == decode_varint(bytes, pos, 0, 0)
    IN  IF index = None
        THEN None
        ELSE LET cx == CX_decode_extended(bytes, index[2], last_data)
             IN  IF cx = None
                 THEN None
                 ELSE LET lx == LX_decode_extended(bytes, cx[2])
                      IN  IF lx = None
                          THEN None
                          ELSE << << index[1], cx[1], lx[1] >>, lx[2] >>

\* obtain_last_data of (u64, CX, LX)
obtain_last_data(self, last_data) == CX_obtain_last_data(self[2], last_data)

\* write_sequence: the serializer writes the extra data of the next sequence into the
\* temp buffer with its last_data, and carries the new one.
WriteSequence ==
    /\ sequence_writer # << >>
    /\ sequence_writer.next <= Len(sequence_writer.records)
    /\ LET extra == sequence_writer.records[sequence_writer.next]
       IN  sequence_writer' =
              [sequence_writer EXCEPT
                  !.buffer = @ \o encode_extended(extra, sequence_writer.last_data),
                  !.last_data = obtain_last_data(extra, @),
                  !.next = @ + 1]
    /\ UNCHANGED << sequence_reader, outside_sequences >>

\* flush_temp_buffer: write_data(&buffer.0); buffer.0.clear(); buffer.1.reset();
FlushTempBuffer ==
    /\ sequence_writer # << >>
    /\ sequence_writer.buffer # << >>
    /\ sequence_writer' =
          [sequence_writer EXCEPT !.blocks = Append(@, sequence_writer.buffer),
                                  !.buffer = << >>,
                                  !.last_data = InitialLastData]
    /\ UNCHANGED << sequence_reader, outside_sequences >>

\* All sequences written and flushed.
Finalized ==
    /\ sequence_writer.next > Len(sequence_writer.records)
    /\ sequence_writer.buffer = << >>

\* The decoder: the next record of the block it is in, with its last_data advanced by
\* obtain_last_data; at the end of a block, on to the next one with the initial
\* last_data.
DecodeSequence ==
    /\ sequence_writer # << >>
    /\ Finalized
    /\ ~sequence_reader.ended
    /\ IF sequence_reader.block > Len(sequence_writer.blocks)
       THEN sequence_reader' = [sequence_reader EXCEPT !.ended = TRUE]
       ELSE LET bytes == sequence_writer.blocks[sequence_reader.block]
                res == decode_extended(bytes, sequence_reader.pos, sequence_reader.last_data)
            IN  sequence_reader' =
                   IF res = None
                   THEN [sequence_reader EXCEPT !.block = @ + 1, !.pos = 1,
                                                !.last_data = InitialLastData,
                                                !.left = @ + (Len(bytes) + 1 - sequence_reader.pos)]
                   ELSE [sequence_reader EXCEPT
                            !.decoded = Append(@, res[1]),
                            !.pos = res[2],
                            !.last_data = obtain_last_data(res[1], @)]
    /\ UNCHANGED << sequence_writer, outside_sequences >>

NextSequences == WriteSequence \/ FlushTempBuffer \/ DecodeSequence

InitSequences ==
    /\ IdlePipeline
    /\ IdleComponents
    /\ IdleMapping
    /\ \E records \in UNION { [1 .. n -> ExtraData] : n \in 0 .. MaxSequences } :
          sequence_writer = [records |-> records, next |-> 1, buffer |-> << >>,
                             last_data |-> InitialLastData, blocks |-> << >>]
    /\ sequence_reader = [block |-> 1, pos |-> 1, last_data |-> InitialLastData,
                          decoded |-> << >>, left |-> 0, ended |-> FALSE]
    /\ IdleColors

SpecSequences == InitSequences /\ [][NextSequences]_vars

-----------------------------------------------------------------------------
\* ColorsMemMap: the color sets of the k-mers and their indexes.

outside_colors ==
    << status, pipeline_vars, packet_vars, exec_vars, reader_vars, dispatch_vars, cutn_vars,
       bucket_vars, mapping_vars, sequence_vars >>

\* The color sets the threads ask for, as slices of color identifiers.
ColorSets == { << 0 >>, << 1 >>, << 0, 1 >> }

ColorHashes == 0 .. MaxColorHash

RECURSIVE ColorsSum(_)
ColorsSum(cs) == IF cs = << >> THEN 0 ELSE (cs[1] + 1) + ColorsSum(Tail(cs))

\* hash_colors: a keyed hash of the slice; two slices can have the same hash.
hash_colors(keys, cs) == (keys + ColorsSum(cs)) % (MaxColorHash + 1)

\* serialize_colors appends the color set to the storage; its index is its position.
serialize_colors(storage, cs) == [storage |-> Append(storage, cs), color |-> Len(storage)]

\* A thread outside get_id, with the calls it has made and what they returned.
NotCalling(calls, results) ==
    [pc |-> "idle", colors |-> << >>, hash |-> 0, color |-> 0,
     calls |-> calls, results |-> results]

\* let hash = self.hash_colors(colors); match self.colors.get(&hash): Some(id) returns
\* *id; None goes on to serialize_colors with no lock held on the map.
GetIdLookup(t, cs) ==
    LET hash == hash_colors(hash_keys, cs)
        me == get_id_calls[t]
    IN  /\ me.pc = "idle"
        /\ me.calls < MaxGetIdCalls
        /\ get_id_calls' = [get_id_calls EXCEPT ![t] =
              IF colors[hash] = None
              THEN [me EXCEPT !.pc = "serialize", !.colors = cs, !.hash = hash,
                              !.calls = me.calls + 1]
              ELSE NotCalling(me.calls + 1, me.results \cup {<< cs, colors[hash][1] >>})]
        /\ UNCHANGED << colors, colors_storage, hash_keys >>
        /\ UNCHANGED outside_colors

\* let color = self.colors_storage.serialize_colors(colors);
GetIdSerialize(t) ==
    LET me == get_id_calls[t]
        new == serialize_colors(colors_storage, me.colors)
    IN  /\ me.pc = "serialize"
        /\ colors_storage' = new.storage
        /\ get_id_calls' = [get_id_calls EXCEPT ![t] =
              [me EXCEPT !.pc = "insert", !.color = new.color]]
        /\ UNCHANGED << colors, hash_keys >>
        /\ UNCHANGED outside_colors

\* self.colors.insert(hash, color); color
GetIdInsert(t) ==
    LET me == get_id_calls[t]
    IN  /\ me.pc = "insert"
        /\ colors' = [colors EXCEPT ![me.hash] = << me.color >>]
        /\ get_id_calls' = [get_id_calls EXCEPT ![t] =
              NotCalling(me.calls, me.results \cup {<< me.colors, me.color >>})]
        /\ UNCHANGED << colors_storage, hash_keys >>
        /\ UNCHANGED outside_colors

NextColors ==
    \/ \E t \in Threads, cs \in ColorSets : GetIdLookup(t, cs)
    \/ \E t \in Threads : GetIdSerialize(t)
    \/ \E t \in Threads : GetIdInsert(t)

\* ColorsMemMap::new: an empty map, an empty storage, keys drawn at random.
InitColors ==
    /\ IdlePipeline
    /\ IdleComponents
    /\ IdleMapping
    /\ IdleSequences
    /\ colors = [h \in ColorHashes |-> None]
    /\ colors_storage = << >>
    /\ hash_keys \in ColorHashes
    /\ get_id_calls = [t \in Threads |-> NotCalling(0, {})]

SpecColors == InitColors /\ [][NextColors]_vars

-----------------------------------------------------------------------------
\* Properties of hashes_sorting.

\* The groups of the worker pass that has just run.
HashSteps == IF last.fn = "hashes_sorting" THEN Range(last.steps) ELSE {}

Placeholder(rec) == rec.entries = << >>

NoSeal(rec) == ~rec.flags.begin_sealed /\ ~rec.flags.end_sealed

OppositePair(x) ==
    /\ Len(x) = 2
    /\ {x[1].direction, x[2].direction} = {"Forward", "Backward"}

\* The link records of a pair with Forward entry f and Backward entry b.
PairLinksOk(f, b, links, buckets) ==
    /\ Len(links) = 2
    /\ \E i \in 1 .. 2 :
         LET lf == links[i]
             lb == links[3 - i]
         IN  /\ lf.bucket = f.bucket /\ lf.rec.entry = f.entry
             /\ lb.bucket = b.bucket /\ lb.rec.entry = b.entry
             /\ lf.rec.flags.is_forward /\ ~lb.rec.flags.is_forward
             /\ NoSeal(lf.rec) /\ NoSeal(lb.rec)
             /\ \/ /\ lf.rec.entries = << [bucket |-> b.bucket, index |-> b.entry] >>
                   /\ Placeholder(lb.rec)
                \/ /\ lb.rec.entries = << [bucket |-> f.bucket, index |-> f.entry] >>
                   /\ Placeholder(lf.rec)
             /\ BagIn(lf.rec, buckets[f.bucket])
             /\ BagIn(lb.rec, buckets[b.bucket])

\* C1: every group of two hash entries with equal hash and opposite directions emits
\* exactly two links, one holding the single UnitigIndex of the partner and one empty,
\* the Forward entry's link with is_forward, the Backward entry's without, neither
\* sealed, each keyed by its own entry and written to its own bucket, for both coins.
C1_PairEmitsLinkAndPlaceholder ==
    \A st \in HashSteps :
        OppositePair(st.x) =>
            \E i \in 1 .. 2 :
                /\ st.x[i].direction = "Forward"
                /\ PairLinksOk(st.x[i], st.x[3 - i], st.res.links, links_buckets)

\* Both coin outcomes in one pass, on pairs that join different buckets.
C1_Witness ==
    \E s, t \in HashSteps :
        /\ OppositePair(s.x) /\ OppositePair(t.x)
        /\ s.coin /\ ~t.coin
        /\ s.x[1].bucket # s.x[2].bucket /\ t.x[1].bucket # t.x[2].bucket
        /\ Len(s.res.links) = 2 /\ Len(t.res.links) = 2

\* The groups of the input, as hashes_sorting sees them: one per file and hash.
InputGroups ==
    UNION { { {e \in hash_inputs[f] : e.hash = h} : h \in {e.hash : e \in hash_inputs[f]} } :
              f \in Buckets }

PairedGroups ==
    { g \in InputGroups :
        Cardinality(g) = 2 /\ {e.direction : e \in g} = {"Forward", "Backward"} }

AllWorkersDone == \A w \in Buckets : wpc[w] = "done"

\* C2: a group of size 1, of size above 2, or of two entries with the same direction
\* emits nothing: the output buckets hold two records per linked pair and no other.
C2_OtherGroupsDropped ==
    /\ \A st \in HashSteps : ~OppositePair(st.x) => st.res.links = << >>
    /\ (phase = "hashes_sorting" /\ AllWorkersDone) =>
         \A b \in Buckets :
            BagCardinality(links_buckets[b]) =
                Cardinality({e \in UNION PairedGroups : e.bucket = b})

\* A pass over a group of three entries and over a pair with equal directions.
C2_Witness ==
    /\ \E st \in HashSteps : Len(st.x) = 3 /\ st.res.links = << >>
    /\ phase = "hashes_sorting" /\ AllWorkersDone
    /\ \A b \in Buckets : links_buckets[b] = EmptyBag

C2_WitnessSameDirection ==
    \E s, t \in HashSteps :
        /\ Len(s.x) = 2 /\ s.x[1].direction = s.x[2].direction /\ s.res.links = << >>
        /\ Len(t.x) = 1 /\ t.res.links = << >>

-----------------------------------------------------------------------------
\* Properties of one pass of the links_compaction loop body.

\* The groups of the worker pass that has just run.
CompactSteps == IF last.fn = "links_compaction" THEN Range(last.steps) ELSE {}

NonEmptyPair(x) == Len(x) = 2 /\ ~Placeholder(x[1]) /\ ~Placeholder(x[2])

LonelyLink(x) == Len(x) = 1 /\ ~Placeholder(x[1])

\* A group of two: one link and one placeholder.
LinkAndPlaceholder(x) == Len(x) = 2 /\ (Placeholder(x[1]) # Placeholder(x[2]))

TheLink(x) == IF Placeholder(x[1]) THEN x[2] ELSE x[1]

\* The endpoint a record is keyed at, and the far end of a link.
KeyOf(o) == [bucket |-> o.bucket, index |-> o.rec.entry]

FarEnd(rec) == rec.entries[Len(rec.entries)]

\* The path a link stands for: its endpoint, then its entries.
PathOf(key, rec) == << key >> \o rec.entries

IsReverseOf(p, q) == Len(p) = Len(q) /\ \A i \in 1 .. Len(p) : p[i] = q[Len(q) + 1 - i]

IsPlaceholderAt(o, node) ==
    /\ o.bucket = node.bucket /\ o.rec.entry = node.index
    /\ o.rec.entries = << >>

\* C3: the link emitted by a fuse at entry E, read as its new entry followed by its
\* entries, is the back link's path reversed (far end first), then E, then the fore
\* link's path; it is keyed at the far end of the back link, ends at the far end of the
\* fore link, and one empty placeholder goes to the far end of the fore link.
C3_FusedPath ==
    \A st \in CompactSteps :
        NonEmptyPair(st.x) =>
            /\ st.res.kind = "fuse"
            /\ Len(st.res.links) = 2
            /\ \E bw \in 1 .. 2 :
                 LET back == st.x[bw].entries
                     fore == st.x[3 - bw].entries
                     here == [bucket |-> last.bucket, index |-> st.x[1].entry]
                     l1 == st.res.links[1]
                     path == PathOf(KeyOf(l1), l1.rec)
                 IN  /\ Len(path) = Len(back) + 1 + Len(fore)
                     /\ IsReverseOf(SubSeq(path, 1, Len(back)), back)
                     /\ path[Len(back) + 1] = here
                     /\ SubSeq(path, Len(back) + 2, Len(path)) = fore
                     /\ KeyOf(l1) = back[Len(back)]
                     /\ FarEnd(l1.rec) = fore[Len(fore)]
                     /\ IsPlaceholderAt(st.res.links[2], fore[Len(fore)])

\* A fuse whose back link holds three unitigs and whose fore link holds two.
C3_Witness ==
    \E st \in CompactSteps :
        /\ NonEmptyPair(st.x) /\ st.res.kind = "fuse"
        /\ \E bw \in 1 .. 2 :
              /\ Len(st.x[bw].entries) >= 3
              /\ FarEnd(st.x[bw]) = KeyOf(st.res.links[1])
              /\ FarEnd(st.x[3 - bw]) # KeyOf(st.res.links[1])

\* C4: when exactly one of the two fused links has end_sealed the fused link is keyed
\* at the far end of the other one; the coin decides only when neither has end_sealed.
C4_SealedEndNotChosen ==
    \A st \in CompactSteps :
        NonEmptyPair(st.x) =>
            LET a == st.x[1]
                b == st.x[2]
            IN  /\ st.res.kind = "fuse"
                /\ (a.flags.end_sealed /\ ~b.flags.end_sealed) =>
                        /\ KeyOf(st.res.links[1]) = FarEnd(b)
                        /\ ~st.res.flipped
                /\ (b.flags.end_sealed /\ ~a.flags.end_sealed) =>
                        /\ KeyOf(st.res.links[1]) = FarEnd(a)
                        /\ ~st.res.flipped
                /\ (a.flags.end_sealed /\ b.flags.end_sealed) => ~st.res.flipped
                /\ (~a.flags.end_sealed /\ ~b.flags.end_sealed) =>
                        /\ st.res.flipped
                        /\ KeyOf(st.res.links[1]) = IF st.coin THEN FarEnd(a) ELSE FarEnd(b)

\* A fuse of a link with a sealed end and a link with an open end, in either order.
C4_Witness ==
    \E st \in CompactSteps :
        /\ NonEmptyPair(st.x) /\ st.res.kind = "fuse"
        /\ st.x[1].flags.end_sealed /\ ~st.x[2].flags.end_sealed
        /\ FarEnd(st.x[1]) # FarEnd(st.x[2])

\* C5: the fused link has end_sealed iff the link supplying its fore half had, and
\* begin_sealed iff the link supplying its back half had end_sealed.
C5_FusedFlags ==
    \A st \in CompactSteps :
        NonEmptyPair(st.x) =>
            /\ st.res.kind = "fuse"
            /\ \E bw \in 1 .. 2 :
                 LET l1 == st.res.links[1] IN
                     /\ FarEnd(st.x[bw]) = KeyOf(l1)
                     /\ FarEnd(st.x[3 - bw]) = FarEnd(l1.rec)
                     /\ l1.rec.flags.end_sealed = st.x[3 - bw].flags.end_sealed
                     /\ l1.rec.flags.begin_sealed = st.x[bw].flags.end_sealed

\* A fuse that had to swap: only the second link of the group has its end sealed.
C5_Witness ==
    \E st \in CompactSteps :
        /\ NonEmptyPair(st.x) /\ st.res.kind = "fuse"
        /\ st.x[2].flags.end_sealed /\ ~st.x[1].flags.end_sealed
        /\ st.res.links[1].rec.flags.end_sealed
        /\ ~st.res.links[1].rec.flags.begin_sealed

\* C6: a lonely link whose end is sealed is finished: one final-unitig record with its
\* entry and whole path goes to the final bucket of the current bucket, one LinkMapping
\* to the current bucket is written for its entry and one for every UnitigIndex of the
\* path, each to the result-map bucket of that unitig, and nothing is re-emitted.
C6_LonelySealedFinished ==
    \A st \in CompactSteps :
        (LonelyLink(st.x) /\ st.x[1].flags.end_sealed) =>
            LET e == st.x[1]
                b == last.bucket
            IN  /\ st.res.kind = "final"
                /\ st.res.links = << >>
                /\ Len(st.res.finals) = 1
                /\ st.res.finals[1].bucket = b
                /\ st.res.finals[1].rec.entry = e.entry
                /\ st.res.finals[1].rec.entries = e.entries
                /\ BagIn(st.res.finals[1].rec, final_buckets[b])
                /\ Len(st.res.maps) = Len(e.entries) + 1
                /\ st.res.maps[1] = [bucket |-> b, rec |-> [bucket |-> b, entry |-> e.entry]]
                /\ \A i \in 1 .. Len(e.entries) :
                      /\ st.res.maps[i + 1] =
                            [bucket |-> e.entries[i].bucket,
                             rec |-> [bucket |-> b, entry |-> e.entries[i].index]]
                      /\ BagIn([bucket |-> b, entry |-> e.entries[i].index],
                               result_map_buckets[e.entries[i].bucket])

\* A finished unitig of at least four partial unitigs lying in more than one bucket.
C6_Witness ==
    \E st \in CompactSteps :
        /\ LonelyLink(st.x) /\ st.x[1].flags.end_sealed
        /\ st.res.kind = "final"
        /\ Len(st.x[1].entries) >= 3
        /\ \E i \in 1 .. Len(st.x[1].entries) : st.x[1].entries[i].bucket # last.bucket

\* C7: a lonely link whose end is open is re-emitted once, keyed at its far endpoint,
\* with the path reversed so that it ends at the former entry, end_sealed set and
\* begin_sealed clear, together with one empty placeholder at the former entry.
C7_LonelyOpenTurned ==
    \A st \in CompactSteps :
        (LonelyLink(st.x) /\ ~st.x[1].flags.end_sealed) =>
            LET e == st.x[1]
                here == [bucket |-> last.bucket, index |-> e.entry]
            IN  /\ st.res.kind = "reemit"
                /\ st.res.finals = << >> /\ st.res.maps = << >>
                /\ Len(st.res.links) = 2
                /\ KeyOf(st.res.links[1]) = FarEnd(e)
                /\ IsReverseOf(PathOf(KeyOf(st.res.links[1]), st.res.links[1].rec),
                               PathOf(here, e))
                /\ st.res.links[1].rec.flags.end_sealed
                /\ ~st.res.links[1].rec.flags.begin_sealed
                /\ IsPlaceholderAt(st.res.links[2], here)

\* A lonely open link over three partial unitigs.
C7_Witness ==
    \E st \in CompactSteps :
        /\ LonelyLink(st.x) /\ ~st.x[1].flags.end_sealed
        /\ Len(st.x[1].entries) >= 3
        /\ st.res.kind = "reemit"

\* Whether the begin of the link of group st.x is sealed in what the pass wrote: the
\* begin_sealed flag of the record, or end_sealed when the link was turned around.
BeginSealedAfter(st) ==
    CASE st.res.kind \in {"final", "circular"} -> st.res.finals[1].rec.flags.begin_sealed
      [] st.res.kind = "reemit" ->
            IF KeyOf(st.res.links[1]) = [bucket |-> last.bucket, index |-> TheLink(st.x).entry]
            THEN st.res.links[1].rec.flags.begin_sealed
            ELSE st.res.links[1].rec.flags.end_sealed
      [] OTHER -> FALSE

\* C8 as stated: the link of a lonely group, and the link of a group of two whose other
\* member is empty, gets its begin sealed.
C8_Original ==
    \A st \in CompactSteps :
        (LonelyLink(st.x) \/ LinkAndPlaceholder(st.x)) => BeginSealedAfter(st)

\* C8 amended: only the link of a lonely group gets its begin sealed; a link that shares
\* its group with a placeholder keeps its begin unsealed.
C8_OnlyLonelySealed ==
    \A st \in CompactSteps :
        /\ LonelyLink(st.x) => BeginSealedAfter(st)
        /\ LinkAndPlaceholder(st.x) =>
              /\ st.res.kind \in {"reemit", "circular"}
              /\ ~BeginSealedAfter(st)

\* One pass that sealed a lonely link and left a link beside a placeholder unsealed.
C8_Witness ==
    \E s, t \in CompactSteps :
        /\ LonelyLink(s.x) /\ BeginSealedAfter(s)
        /\ LinkAndPlaceholder(t.x) /\ t.res.kind = "reemit" /\ ~BeginSealedAfter(t)

-----------------------------------------------------------------------------
\* Circular unitigs.

CircularLink(b, rec) == ~Placeholder(rec) /\ FarEnd(rec) = [bucket |-> b, index |-> rec.entry]

NoDuplicates(s) == \A i, j \in 1 .. Len(s) : s[i] = s[j] => i = j

\* The partial unitigs named by the hash entries, and those with both ends linked.
InputNodes == { [bucket |-> e.bucket, index |-> e.entry] : e \in UNION {hash_inputs[f] : f \in Buckets} }

EndLinked(node, direction) ==
    \E g \in PairedGroups : \E e \in g :
        e.bucket = node.bucket /\ e.entry = node.index /\ e.direction = direction

\* The input is one cycle: every partial unitig is linked at both ends.
ClosedInput ==
    /\ InputNodes # {}
    /\ \A node \in InputNodes : EndLinked(node, "Forward") /\ EndLinked(node, "Backward")

TotalRecords(buckets) == SumOver([b \in Buckets |-> BagCardinality(buckets[b])], Buckets)

\* C9: a link whose last entries element is its own (bucket, entry) is written once to
\* the final-unitig bucket, every constituent gets exactly one LinkMapping to the current
\* bucket, and nothing is re-emitted; a cycle of links, a single self-linked unitig
\* included, ends as one closed unitig over all its members whatever the coins.
C9_CircularFinalized ==
    /\ \A st \in CompactSteps : \A i \in 1 .. Len(st.x) :
          CircularLink(last.bucket, st.x[i]) =>
              LET e == st.x[i]
                  b == last.bucket
              IN  /\ st.res.kind = "circular"
                  /\ st.res.links = << >>
                  /\ Len(st.res.finals) = 1
                  /\ st.res.finals[1].bucket = b
                  /\ st.res.finals[1].rec.entry = e.entry
                  /\ st.res.finals[1].rec.entries = e.entries
                  /\ NoDuplicates(e.entries)
                  /\ Len(st.res.maps) = Len(e.entries)
                  /\ \A j \in 1 .. Len(e.entries) :
                        st.res.maps[j] =
                            [bucket |-> e.entries[j].bucket,
                             rec |-> [bucket |-> b, entry |-> e.entries[j].index]]
    /\ ClosedInput =>
          \A b \in Buckets : \A rec \in BagToSet(final_buckets[b]) :
              /\ CircularLink(b, rec)
              /\ TotalRecords(final_buckets) = 1
              /\ { rec.entries[j] : j \in 1 .. Len(rec.entries) } = InputNodes
              /\ TotalRecords(result_map_buckets) = Cardinality(InputNodes)
              /\ \A u \in InputNodes :
                    CopiesIn([bucket |-> b, entry |-> u.index], result_map_buckets[u.bucket]) = 1
              /\ TotalRecords(links_buckets) = 0

\* A cycle of five partial unitigs closed in one circular link.
C9_Witness ==
    \E st \in CompactSteps :
        /\ st.res.kind = "circular"
        /\ Len(st.res.maps) >= 5
        /\ ClosedInput

\* A single partial unitig linked to itself, finalized.
C9_WitnessSelfLink ==
    \E st \in CompactSteps :
        /\ st.res.kind = "circular"
        /\ Len(st.res.maps) = 1
        /\ Cardinality(InputNodes) = 1

-----------------------------------------------------------------------------
\* The return value.

LinksIn(bag) == LET S == {r \in BagToSet(bag) : ~Placeholder(r)} IN [r \in S |-> CopiesIn(r, bag)]

\* The links (placeholders apart) written to the output link buckets.
EmittedLinks == SumOver([b \in Buckets |-> BagCardinality(LinksIn(links_buckets[b]))], Buckets)

\* C10: links_compaction returns Some iff totsum is 0, that is iff no worker re-emitted
\* a link, and None otherwise; totsum is the number of links the workers re-emitted.
C10_ReturnFollowsTotsum ==
    /\ phase \in {"links_compaction", "compacted"} => totsum = EmittedLinks
    /\ phase = "links_compaction" => ret = "pending"
    /\ phase = "compacted" =>
          /\ ret \in {"Some", "None"}
          /\ ret = "Some" <=> totsum = 0
          /\ ret = "None" <=> EmittedLinks > 0

\* A return of None after more than one worker re-emitted links.
C10_Witness ==
    /\ phase = "compacted" /\ ret = "None"
    /\ totsum >= 3
    /\ \A b \in Buckets : LinksIn(links_buckets[b]) # EmptyBag

\* A return of Some with finished unitigs on disk.
C10_WitnessSome ==
    /\ phase = "compacted" /\ ret = "Some"
    /\ TotalRecords(final_buckets) > 0

-----------------------------------------------------------------------------
\* Termination of the compaction loop.

Converged == phase = "compacted" /\ ret = "Some"

C11_WitnessPingPong ==
    /\ phase = "compacted" /\ ret = "None"
    /\ ClosedInput
    /\ links_buckets = links_inputs

-----------------------------------------------------------------------------
\* The fixed point.

\* C12: the link buckets written by an iteration that reported totsum = 0 hold no
\* record, and an iteration that reads them writes no link, no final-unitig record and
\* no LinkMapping, and returns Some with totsum = 0.
C12_FixedPoint ==
    /\ [](Converged => totsum = 0 /\ links_buckets = EmptyBuckets)
    /\ [][(Converged /\ phase' = "links_compaction") => links_inputs' = links_buckets]_vars
    /\ [][(phase = "links_compaction" /\ links_inputs = EmptyBuckets) =>
            /\ links_buckets' = EmptyBuckets
            /\ final_buckets' = final_buckets
            /\ result_map_buckets' = result_map_buckets
            /\ totsum' = 0
            /\ status' = "running"
            /\ (phase' = "compacted" => ret' = "Some")]_vars

\* The second call over a fixed point has returned; finished unitigs were there before.
C12_Witness ==
    /\ Converged /\ totsum = 0
    /\ links_inputs = EmptyBuckets
    /\ TotalRecords(final_buckets) >= 1
    /\ TotalRecords(result_map_buckets) >= 5

-----------------------------------------------------------------------------
\* The finished unitigs and the graph of the linked pairs.

NodeOf(e) == [bucket |-> e.bucket, index |-> e.entry]

\* The edges of the graph: one per linked pair, from its Forward to its Backward entry.
Edges ==
    { [from |-> NodeOf(CHOOSE e \in g : e.direction = "Forward"),
       to |-> NodeOf(CHOOSE e \in g : e.direction = "Backward")] : g \in PairedGroups }

\* The finished unitigs on disk, each with its bucket.
Finished == UNION { { [bucket |-> b, rec |-> r] : r \in BagToSet(final_buckets[b]) } : b \in Buckets }

IsClosed(u) == CircularLink(u.bucket, u.rec)

\* The members of a finished unitig in order; a closed one lists its entry once, last.
Members(u) ==
    IF IsClosed(u) THEN u.rec.entries
    ELSE << [bucket |-> u.bucket, index |-> u.rec.entry] >> \o u.rec.entries

\* The pairs of consecutive members, the closing pair of a closed unitig included.
Consecutive(u) ==
    LET m == Members(u) IN
    { << m[i], m[i + 1] >> : i \in 1 .. (Len(m) - 1) }
      \cup (IF IsClosed(u) THEN { << m[Len(m)], m[1] >> } ELSE {})

Joins(edge, pair) ==
    \/ (edge.from = pair[1] /\ edge.to = pair[2])
    \/ (edge.from = pair[2] /\ edge.to = pair[1])

\* C13: at convergence every edge joins two consecutive members of exactly one finished
\* unitig, every pair of consecutive members is joined by an edge, no partial unitig is
\* in two finished unitigs or twice in one, and so no edge joins two finished unitigs.
C13_FinishedAreComponents ==
    Converged =>
        /\ \A e \in Edges :
              Cardinality({u \in Finished : \E pr \in Consecutive(u) : Joins(e, pr)}) = 1
        /\ \A u \in Finished :
              /\ NoDuplicates(Members(u))
              /\ \A pr \in Consecutive(u) : \E e \in Edges : Joins(e, pr)
              /\ Cardinality({e \in Edges : \E pr \in Consecutive(u) : Joins(e, pr)}) =
                    IF IsClosed(u) THEN Len(Members(u)) ELSE Len(Members(u)) - 1
        /\ \A u, v \in Finished : u # v => Range(Members(u)) \cap Range(Members(v)) = {}
        /\ \A b \in Buckets : \A r \in BagToSet(final_buckets[b]) : CopiesIn(r, final_buckets[b]) = 1

\* A branch has split a chain in two finished unitigs, one of them of three members.
C13_Witness ==
    /\ Converged
    /\ Cardinality(Finished) = 2
    /\ \E u \in Finished : Len(Members(u)) >= 3

\* A cycle of five has converged to one closed unitig.
C13_WitnessCycle ==
    /\ Converged
    /\ \E u \in Finished : IsClosed(u) /\ Len(Members(u)) >= 5

-----------------------------------------------------------------------------
\* The result as a function of the input.

\* The partial unitigs one edge away from those of S, S included.
Adjacent(S) ==
    S \cup {e.to : e \in {d \in Edges : d.from \in S}}
      \cup {e.from : e \in {d \in Edges : d.to \in S}}

RECURSIVE Component(_)
Component(S) == IF Adjacent(S) = S THEN S ELSE Component(Adjacent(S))

\* The connected components that have an edge.
Components == { Component({e.from}) : e \in Edges }

\* A unitig up to reversal and rotation: its members, the pairs that follow each other
\* in it, and whether it is closed.
Shape(members, links, closed) == [members |-> members, links |-> links, closed |-> closed]

ShapeOfFinished(u) ==
    Shape(Range(Members(u)), { {pr[1], pr[2]} : pr \in Consecutive(u) }, IsClosed(u))

ShapeOfComponent(C) ==
    LET inside == {e \in Edges : e.from \in C}
    IN  Shape(C, { {e.from, e.to} : e \in inside }, Cardinality(inside) = Cardinality(C))

\* C14: at convergence the finished unitigs, each up to reversal and rotation, are the
\* components of the graph of the hash entries: the same set for every outcome of the
\* coins and every order in which the workers of the buckets run.
C14_ResultDeterminedByInput ==
    Converged =>
        /\ { ShapeOfFinished(u) : u \in Finished } = { ShapeOfComponent(C) : C \in Components }
        /\ Cardinality(Finished) = Cardinality(Components)
        /\ \A u \in Finished : NoDuplicates(Members(u))

\* A chain of five converged after a worker pass that depended on a coin.
C14_Witness ==
    /\ Converged
    /\ \E u \in Finished : ~IsClosed(u) /\ Len(Members(u)) >= 5
    /\ Cardinality(Components) = 1

\* Two runs on the same input differ in the stored sequence: this one is keyed at the
\* last partial unitig of the chain, others at the first.
C14_WitnessReversed ==
    /\ Converged
    /\ \E u \in Finished :
          /\ ~IsClosed(u) /\ Len(Members(u)) >= 4
          /\ Members(u)[1] = Node(Len(Members(u)) - 1)

C14_WitnessForward ==
    /\ Converged
    /\ \E u \in Finished :
          /\ ~IsClosed(u) /\ Len(Members(u)) >= 4
          /\ Members(u)[1] = Node(0)

-----------------------------------------------------------------------------
\* The self-link check.

C15_SelfLinkExitsZero ==
    \E st \in CompactSteps :
        /\ st.res.kind = "exit"
        /\ st.x = << UnitigLink(0, new_direction(TRUE), << Node(0), Node(1) >>),
                     UnitigLink(0, new_empty, << >>) >>
        /\ status = "exit0" /\ ExitStatus(status) = 0
        /\ links_buckets = EmptyBuckets

-----------------------------------------------------------------------------
\* The records of the link buckets.

\* The records of the link buckets being written and of those being read.
BucketRecords ==
    UNION { BagToSet(links_buckets[b]) \cup BagToSet(links_inputs[b]) : b \in Buckets }

\* C16 as stated: a non-empty link has at most one of begin_sealed, end_sealed false,
\* and a placeholder has no entries and no flag set.
C16_Original ==
    \A r \in BucketRecords :
        /\ ~Placeholder(r) => (r.flags.begin_sealed \/ r.flags.end_sealed)
        /\ Placeholder(r) =>
              ~r.flags.is_forward /\ ~r.flags.begin_sealed /\ ~r.flags.end_sealed

\* C16 amended: a non-empty link in a link bucket has begin_sealed only together with
\* end_sealed (neither is set in a link written by hashes_sorting); a placeholder has
\* no entries and neither seal flag, and those written by links_compaction no flag.
C16_LinkFlagsInvariant ==
    /\ \A r \in BucketRecords :
          /\ ~Placeholder(r) => (r.flags.begin_sealed => r.flags.end_sealed)
          /\ Placeholder(r) => ~r.flags.begin_sealed /\ ~r.flags.end_sealed
    /\ \A st \in HashSteps : \A i \in 1 .. Len(st.res.links) : NoSeal(st.res.links[i].rec)
    /\ \A st \in CompactSteps : \A i \in 1 .. Len(st.res.links) :
          Placeholder(st.res.links[i].rec) => st.res.links[i].rec.flags = new_empty

\* The link buckets hold a link with both ends sealed and a placeholder written by the
\* fuse that made it.
C16_Witness ==
    /\ \E r \in BucketRecords : ~Placeholder(r) /\ r.flags.begin_sealed /\ r.flags.end_sealed
    /\ \E r \in BucketRecords : Placeholder(r) /\ r.flags = new_empty
    /\ \E st \in CompactSteps : st.res.kind = "fuse"

\* The link buckets hold a link with neither end sealed beside one with its end sealed.
C16_WitnessOpen ==
    /\ \E r \in BucketRecords : ~Placeholder(r) /\ NoSeal(r)
    /\ \E r \in BucketRecords : ~Placeholder(r) /\ ~r.flags.begin_sealed /\ r.flags.end_sealed
    /\ \E r \in BucketRecords : Placeholder(r) /\ r.flags.is_forward

-----------------------------------------------------------------------------
\* The counter and the return.

ReturnStep == phase = "links_compaction" /\ phase' = "compacted"

\* The values the counter can hold in this instance.
TotsumValues == 0 .. (2 * MaxNodes)

\* C17 as stated: the outcome of links_compaction is the same whatever totsum holds.
C17_Original == [][ReturnStep => \A t \in TotsumValues : Returned(t) = ret']_vars

\* C17 amended: totsum decides the second component returned, Some exactly when it is 0
\* once every worker has added its count, and with it whether the loop stops; the link
\* buckets returned are the same whatever it holds.
C17_TotsumDecidesReturn ==
    /\ [][ReturnStep =>
            /\ AllWorkersDone
            /\ ret' = (IF totsum = 0 THEN "Some" ELSE "None")
            /\ totsum' = totsum
            /\ links_buckets' = links_buckets
            /\ \E t \in TotsumValues : Returned(t) # ret']_vars
    /\ [][(phase = "compacted" /\ phase' = "links_compaction") => totsum # 0]_vars
    /\ [](Converged => totsum = 0 /\ ~CallAgain)

\* A return of None on a count of one: a single link is left to turn around.
C17_Witness ==
    /\ phase = "compacted" /\ ret = "None" /\ totsum = 1
    /\ TotalRecords(links_buckets) = 2

-----------------------------------------------------------------------------
\* The phase barrier.

WorkerStep == \E w \in Buckets : wpc[w] = "todo" /\ wpc'[w] = "done"

\* What the worker pass that has just run emitted for bucket b.
Emitted(field, b) == RecsFor(Concat(last'.steps, field), b)

\* C18: a function hands its buckets over only when every worker is through, a worker
\* that is through has every record it emitted in the buckets, and the next call reads
\* the buckets as they were handed over.
C18_PhaseBarrier ==
    /\ [](phase \in {"hashes_sorted", "compacted"} => AllWorkersDone)
    /\ [][WorkerStep =>
            \A b \in Buckets :
                /\ links_buckets'[b] = links_buckets[b] (+) Emitted("links", b)
                /\ final_buckets'[b] = final_buckets[b] (+) Emitted("finals", b)
                /\ result_map_buckets'[b] = result_map_buckets[b] (+) Emitted("maps", b)]_vars
    /\ [][(phase = "hashes_sorted" \/ phase = "compacted") =>
            (\/ (phase' = phase /\ links_buckets' = links_buckets)
             \/ (phase' = "links_compaction" /\ links_inputs' = links_buckets))]_vars
    /\ [](phase = "hashes_sorted" =>
            \A b \in Buckets :
                BagCardinality(links_buckets[b]) =
                    Cardinality({e \in UNION PairedGroups : e.bucket = b}))

\* hashes_sorting has returned buckets that every worker wrote to.
C18_Witness ==
    /\ phase = "hashes_sorted"
    /\ \A b \in Buckets : BagCardinality(links_buckets[b]) >= 2
    /\ \E b \in Buckets : \E r \in BagToSet(links_buckets[b]) :
          ~Placeholder(r) /\ r.entries[1].bucket # b

\* links_compaction has returned final unitigs and mappings written for other buckets.
C18_WitnessCompaction ==
    /\ phase = "compacted"
    /\ \A b \in Buckets : result_map_buckets[b] # EmptyBag
    /\ TotalRecords(final_buckets) = 1

-----------------------------------------------------------------------------
\* The packet pool.

\* Bodies handed out by the pool and not yet handed back.
Outstanding ==
    { o \in Objects : lifetimes[o].pooled /\ packets[o].kind \in {"Packet", "PacketAny", "Leaked"} }

\* C19: a packet allocated from the pool holds its body and its returner, and has not
\* been handed to the returner, as long as it lives through upcasts and downcasts; when
\* the typed Packet has been dropped its body has been handed to the returner exactly
\* once (the outstanding count goes down by one and the body is in the channel unless
\* the channel was full); a new_simple packet has no returner and its drop frees the
\* body once and leaves the pool as it was.
C19_ReturnedExactlyOnce ==
    /\ pool.outstanding = Cardinality(Outstanding)
    /\ \A o \in Objects :
          LET p == packets[o]
              l == lifetimes[o]
          IN  /\ p.kind \in {"Packet", "PacketAny"} =>
                    /\ p.object = o
                    /\ p.returner = (IF l.pooled THEN "Some" ELSE "None")
              /\ p.kind # "None" => l.sends = 0 /\ l.frees = 0 /\ o \notin pool.queue
              /\ l.dropped /\ l.pooled =>
                    /\ l.sends = 1
                    /\ l.frees = (IF o \in pool.queue THEN 0 ELSE 1)
              /\ l.dropped /\ ~l.pooled =>
                    l.sends = 0 /\ l.frees = 1 /\ ~l.touched /\ o \notin pool.queue
              /\ ~l.dropped => l.sends = 0 /\ l.frees = 0

\* A pooled packet returned after a cast and a new_simple packet freed.
C19_Witness ==
    \E o1, o2 \in Objects :
        /\ lifetimes[o1].pooled /\ lifetimes[o1].dropped /\ lifetimes[o1].casts >= 1
        /\ lifetimes[o1].sends = 1 /\ o1 \in pool.queue
        /\ ~lifetimes[o2].pooled /\ lifetimes[o2].dropped /\ lifetimes[o2].frees = 1

\* A pooled packet dropped while the channel is full: handed to the returner, then freed.
C19_WitnessFull ==
    \E o \in Objects :
        /\ lifetimes[o].pooled /\ lifetimes[o].dropped
        /\ lifetimes[o].sends = 1 /\ lifetimes[o].frees = 1

\* A PacketAny is never dropped quietly: the body is not returned and the process panics.
C19_WitnessAnyDropped ==
    \E o \in Objects : packets[o].kind = "Leaked" /\ lifetimes[o].pooled /\ status = "panic"

\* An upcast or a downcast of the packet of body o.
CastStep(o) ==
    /\ packets[o].kind \in {"Packet", "PacketAny"}
    /\ packets'[o].kind \in {"Packet", "PacketAny"}
    /\ packets'[o].kind # packets[o].kind

\* C20: a typed packet that has been through upcast and downcast is the packet it was
\* before the upcast, same body, same returner, same type; and a step that is an upcast
\* or a downcast leaves the pool (its channel and its outstanding count) as it was and
\* hands nothing to the returner.
C20_CastRoundTrip ==
    /\ [](\A o \in Objects :
            packets[o].kind = "Packet" /\ lifetimes[o].casts > 0 => packets[o] = lifetimes[o].orig)
    /\ [][\A o \in Objects :
            CastStep(o) => pool' = pool /\ lifetimes'[o].sends = lifetimes[o].sends]_vars

\* A pooled packet back from a round trip, while another body waits in the channel.
C20_Witness ==
    \E o \in Objects :
        /\ packets[o] = Packet(o, "Some", "T")
        /\ lifetimes[o].casts >= 1
        /\ pool.queue # {}

C20_WitnessSimple ==
    \E o \in Objects : packets[o] = Packet(o, "None", "U") /\ lifetimes[o].casts = MaxCasts

\* Packets of the pool that some thread holds.
Held == { o \in Objects : lifetimes[o].pooled /\ packets[o].kind \in {"Packet", "PacketAny"} }

\* C21: with blocking allocation only, the packets of the pool that are allocated and
\* not yet returned are never more than the cap, and the outstanding count has gone
\* down exactly once for a packet that is being returned, before its body is offered to
\* the channel.
C21_PoolBound ==
    /\ Cardinality(Held) <= PoolCap
    /\ \A o \in Objects :
          /\ lifetimes[o].sends <= 1
          /\ packets[o].kind = "Dropping" => lifetimes[o].sends = 1 /\ o \notin pool.queue

\* The half of C21 that holds: one decrement per return, ahead of the offer.
C21_DecrementedOnceBeforeOffer ==
    \A o \in Objects :
        /\ lifetimes[o].sends <= 1
        /\ packets[o].kind = "Dropping" => lifetimes[o].sends = 1 /\ o \notin pool.queue
        /\ lifetimes[o].dropped => lifetimes[o].sends = 1

\* More packets held than the cap allows.
C21_OverCap == Cardinality(Held) > PoolCap

-----------------------------------------------------------------------------
\* Executor addresses.

\* C22: the addresses generated, taken in the order their calls took effect, have
\* strictly increasing internal ids (so no two are equal), whatever the executor types
\* and the threads of the calls; each carries the type id of the executor type its call
\* was made on; and the keeper of an address that is alive is the keeper of no other
\* address alive and of no call under way.
C22_AddressesUnique ==
    /\ \A i, j \in DOMAIN generated :
          i < j => generated[i].address.executor_internal_id
                       < generated[j].address.executor_internal_id
    /\ \A i \in DOMAIN generated :
          generated[i].address.executor_type_id = TypeIdOf(generated[i].Self)
    /\ \A i, j \in DOMAIN generated :
          /\ i # j
          /\ generated[i].clones > 0
          /\ generated[j].clones > 0
          => generated[i].address.executor_keeper # generated[j].address.executor_keeper
    /\ \A i \in DOMAIN generated : \A t \in DOMAIN callers :
          generated[i].clones > 0 /\ callers[t].pc = "keeper"
          => generated[i].address.executor_keeper # callers[t].keeper

\* Addresses of two executor types generated while calls overlapped, one of them cloned.
C22_Witness ==
    /\ Len(generated) = MaxAddresses
    /\ \E i, j \in DOMAIN generated : generated[i].Self # generated[j].Self
    /\ \E i \in DOMAIN generated : generated[i].clones = MaxThreads
    /\ \E i \in DOMAIN generated : generated[i].clones = 0

\* A keeper freed by the last drop is given to a later address.
C22_WitnessKeeperReused ==
    \E i, j \in DOMAIN generated :
        /\ i < j
        /\ generated[i].address.executor_keeper = generated[j].address.executor_keeper

-----------------------------------------------------------------------------
\* The k-mer merging reader.

\* Address handles the reader holds, in its addresses field and in reinit_params.
ReaderHandles ==
    Len(reader.addresses)
        + (IF reader.reinit_params = None THEN 0 ELSE Len(reader.reinit_params[4]))

AfterPreExecute == reader.pc \in {"pre_executed", "finalized", "reset"}

\* C23: once pre_execute has returned, by its end or by the early return, the reader
\* holds no address and no buffer and the packets sent are those sent before the
\* return; the assert of finalize holds; and every packet was sent to an address the
\* reader held a handle to when it sent it.
C23_DrainProtocol ==
    /\ AfterPreExecute =>
          /\ ReaderHandles = 0
          /\ reader.buffers = << >>
          /\ Len(packet_send) = reader.sent_at_return
    /\ reader.pc # "panic"
    /\ \A i \in DOMAIN packet_send : packet_send[i].handles >= 1

\* finalize has run after a full buffer was sent from the closure and a partly filled
\* one from the final loop.
C23_Witness ==
    /\ reader.pc = "finalized"
    /\ \E i, j \in DOMAIN packet_send :
          /\ Len(packet_send[i].packet) = BufferCap
          /\ Len(packet_send[j].packet) < BufferCap

\* The early return: finalize has run and nothing was sent.
C23_WitnessEarlyReturn ==
    /\ reader.pc = "finalized"
    /\ file.reads = << >>
    /\ packet_send = << >>

\* The executor type the claim gives sub-bucket i (from 1) of a descriptor.
ClaimedType(desc, i) ==
    IF /\ desc.resplitted = FALSE
       /\ i <= Len(desc.sub_bucket_counters)
       /\ desc.sub_bucket_counters[i].is_outlier
    THEN "KmersTransformResplitter"
    ELSE "KmersTransformProcessor"

\* C24: a group that has been allocated got 2^max_second_buckets_count_log2 addresses,
\* the initializer was called once with all of them in sub-bucket order (ids rising),
\* the build parameters carry the same addresses, and address i is a resplitter
\* address iff the descriptor is not resplitted and sub-bucket i has a counter tagged
\* is_outlier, a processor address otherwise.
C24_GroupAddresses ==
    group.state \in {"allocated", "running"} =>
        LET n == 2 ^ group.context.max_second_buckets_count_log2
            calls == group.executors_initializer
        IN  /\ Len(calls) = 1
            /\ Len(calls[1]) = n
            /\ group.build # None => group.build[4] = calls[1]
            /\ \A i \in 1 .. n :
                  calls[1][i].executor_type_id = TypeIdOf(ClaimedType(file.desc, i))
            /\ \A i, j \in 1 .. n :
                  i < j => calls[1][i].executor_internal_id < calls[1][j].executor_internal_id

\* A resplitter address next to a processor address of a sub-bucket without counter.
C24_Witness ==
    /\ group.state = "allocated"
    /\ Len(file.desc.sub_bucket_counters) < Len(group.build[4])
    /\ \E i, j \in DOMAIN group.build[4] :
          /\ group.build[4][i].executor_type_id = TypeIdOf("KmersTransformResplitter")
          /\ group.build[4][j].executor_type_id = TypeIdOf("KmersTransformProcessor")
          /\ j > Len(file.desc.sub_bucket_counters)

\* An outlier tag that is not followed because the descriptor is resplitted.
C24_WitnessResplitted ==
    /\ group.state = "allocated"
    /\ file.desc.resplitted
    /\ \E i \in DOMAIN group.build[4] :
          /\ i <= Len(file.desc.sub_bucket_counters)
          /\ file.desc.sub_bucket_counters[i].is_outlier

ResplitterAddress(a) == a.executor_type_id = TypeIdOf("KmersTransformResplitter")

\* C25: the group of a descriptor with resplitted = true has no resplitter address,
\* whatever its outlier tags, and nothing is sent to one; so the records of a bucket
\* file have been through a resplitter at most once.
C25_ResplitBounded ==
    /\ file.depth <= 1
    /\ file.desc.resplitted =>
          /\ \A c \in DOMAIN group.executors_initializer :
                \A i \in DOMAIN group.executors_initializer[c] :
                    ~ResplitterAddress(group.executors_initializer[c][i])
          /\ \A i \in DOMAIN packet_send : ~ResplitterAddress(packet_send[i].address)
          /\ Resplit(packet_send) = << >>

\* Records that came back from a resplitter, in a bucket tagged as outlier, read to the end.
C25_Witness ==
    /\ reader.pc = "reset"
    /\ file.depth = 1
    /\ packet_send # << >>
    /\ \E i \in DOMAIN file.desc.sub_bucket_counters :
          /\ file.desc.sub_bucket_counters[i].is_outlier
          /\ i <= Len(group.executors_initializer[1])

\* The AsyncBinaryReader of the group has been dropped.
Closed == group.state = "running" /\ reader.async_reader = None

\* C26: the bucket file is on the filesystem until the reader closes it; once closed it
\* is still there iff KEEP_FILES was set when the group was allocated, whatever the flag
\* holds later.
C26_RemoveOnClose ==
    /\ ~Closed => file.on_disk
    /\ Closed => (file.on_disk <=> group.keep_files)

\* The file is gone although the flag is set by now.
C26_Witness == Closed /\ ~file.on_disk /\ KEEP_FILES /\ reader.pc = "reset"

\* The file is kept although the flag is no longer set.
C26_WitnessKept == Closed /\ file.on_disk /\ ~KEEP_FILES

-----------------------------------------------------------------------------
\* The querier dispatch.

DispatchDone == dispatched.pc \in {"returned", "panic"}

\* The width the claim gives the merging hash of a sequence hash.
ClaimedBits(k) == IF k <= 8 THEN 16 ELSE IF k <= 16 THEN 32 ELSE IF k <= 32 THEN 64 ELSE 128

\* C27: a call with SeqHash, or with Auto and k <= 64, runs the querier once with a
\* sequence hash of 16, 32, 64, 128 bits for k <= 8, 16, 32, 64; Auto with k > 64 runs
\* it once with RabinKarp128 and reaches neither panic; SeqHash with k > 64 panics and
\* runs nothing; no call runs the querier twice.
C27_HashWidth ==
    /\ Len(dispatched.runs) <= 1
    /\ dispatched.panic # "unreachable"
    /\ dispatched.pc = "returned" => Len(dispatched.runs) = 1
    /\ DispatchDone =>
          LET k == args.klen
              seq_hash == args.hash_type = "SeqHash" \/ (args.hash_type = "Auto" /\ k <= 64)
          IN  /\ seq_hash /\ k <= 64 =>
                    /\ dispatched.pc = "returned"
                    /\ dispatched.runs[1].MergingHash.module \in {"cn_seqhash", "fw_seqhash"}
                    /\ dispatched.runs[1].MergingHash.bits = ClaimedBits(k)
              /\ args.hash_type = "Auto" /\ k > 64 =>
                    /\ dispatched.hash_type = "RabinKarp128"
                    /\ dispatched.pc = "returned"
                    /\ dispatched.runs[1].MergingHash.module \in {"cn_rkhash", "fw_rkhash"}
                    /\ dispatched.runs[1].MergingHash.bits = 128
              /\ args.hash_type = "SeqHash" /\ k > 64 =>
                    /\ dispatched.pc = "panic"
                    /\ dispatched.runs = << >>

\* Auto with k > 64 has run the querier.
C27_Witness ==
    /\ dispatched.pc = "returned"
    /\ args.hash_type = "Auto"
    /\ args.klen > 64

\* An explicit SeqHash with k > 64 has panicked.
C27_WitnessPanic ==
    /\ dispatched.pc = "panic"
    /\ args.hash_type = "SeqHash"
    /\ args.klen > 64

\* Auto with a k that takes the 128 bit sequence hash.
C27_WitnessWide ==
    /\ dispatched.pc = "returned"
    /\ args.hash_type = "Auto"
    /\ args.klen = 64
    /\ dispatched.runs[1].MergingHash.bits = 128

CanonicalRun(run) ==
    /\ run.BucketingHash = "CanonicalNtHashIteratorFactory"
    /\ run.MergingHash.module \in {"cn_seqhash", "cn_rkhash"}

ForwardRun(run) ==
    /\ run.BucketingHash = "ForwardNtHashIteratorFactory"
    /\ run.MergingHash.module \in {"fw_seqhash", "fw_rkhash"}

\* C28: every run of the querier has canonical bucketing and merging hashers iff
\* forward_only is false and forward ones iff forward_only is true.
C28_ForwardOnlyFollowed ==
    \A i \in DOMAIN dispatched.runs :
        /\ CanonicalRun(dispatched.runs[i]) <=> ~args.forward_only
        /\ ForwardRun(dispatched.runs[i]) <=> args.forward_only

\* For k > 8 the hashers follow forward_only.
C28_FollowedAboveEight ==
    \A i \in DOMAIN dispatched.runs :
        args.klen > 8 =>
            /\ CanonicalRun(dispatched.runs[i]) <=> ~args.forward_only
            /\ ForwardRun(dispatched.runs[i]) <=> args.forward_only

-----------------------------------------------------------------------------
\* cut_n.

\* The maximal N-free segments of a read, as pairs of first and last position: no N
\* inside, and an N or an end of the read on either side.
Segments(read) ==
    { s \in (1 .. Len(read)) \X (1 .. Len(read)) :
        /\ s[1] <= s[2]
        /\ \A p \in s[1] .. s[2] : read[p] # "N"
        /\ s[1] = 1 \/ read[s[1] - 1] = "N"
        /\ s[2] = Len(read) \/ read[s[2] + 1] = "N" }

\* The segments of S in read order, as records.
RECURSIVE InReadOrder(_, _)
InReadOrder(read, S) ==
    IF S = {}
    THEN << >>
    ELSE LET first == CHOOSE s \in S : \A t \in S : s[1] <= t[1]
         IN  << SubSeq(read, first[1], first[2]) >> \o InReadOrder(read, S \ {first})

CutDone == freezer.next > Len(freezer.reads)

\* C29: once the read has been through cut_n, the records written are its maximal
\* N-free segments of length >= k, each once, in read order; so no record holds an N
\* or is shorter than k.
C29_MaximalSegments ==
    CutDone =>
        LET read == freezer.reads[1]
            long == { s \in Segments(read) : s[2] - s[1] + 1 >= freezer.k }
        IN  /\ writer = InReadOrder(read, long)
            /\ \A i \in DOMAIN writer :
                  /\ Len(writer[i]) >= freezer.k
                  /\ \A p \in DOMAIN writer[i] : writer[i][p] # "N"

\* A read with a segment shorter than k, one of length k and an N in between.
C29_Witness ==
    /\ CutDone
    /\ Len(writer) >= 1
    /\ \E i \in DOMAIN writer : Len(writer[i]) = freezer.k
    /\ Cardinality(Segments(freezer.reads[1])) > Len(writer)

\* Two records of one read.
C29_WitnessTwo == CutDone /\ Len(writer) = 2 /\ writer[1] # writer[2]

-----------------------------------------------------------------------------
\* make_buckets.

BucketDone == bucket_reads.next > Len(bucket_reads.reads)

\* The window hashes of a read that are below the threshold.
BelowThreshold(read) ==
    { read[p] : p \in { q \in DOMAIN read : read[q] < MINIMIZER_THRESHOLD_VALUE } }

\* Number of buckets that hold the read.
Written == Cardinality({ b \in DOMAIN bucket_writers : bucket_writers[b] # << >> })

\* C30: a read with a window hash below the threshold gets bucket h mod nbuckets, h its
\* smallest window hash below the threshold, and the window of a position with that
\* hash, and is written to that bucket; a read without one gets no bucket; no read is
\* written to two buckets.
C30_MinimizerBucket ==
    BucketDone =>
        LET read == bucket_reads.reads[1]
            chosen == bucket_reads.chosen[1]
            below == BelowThreshold(read)
        IN  /\ below # {} =>
                  /\ chosen # None
                  /\ chosen[1][1] = Min(below) % bucket_reads.numbuckets
                  /\ read[chosen[1][2] + 1] = Min(below)
                  /\ bucket_writers[chosen[1][1]] = << read >>
            /\ below = {} => chosen = None /\ Written = 0
            /\ Written <= 1

\* What holds of the choice: the bucket is the least of h mod nbuckets over the window
\* hashes h below the threshold.
C30_LeastBucket ==
    BucketDone =>
        LET read == bucket_reads.reads[1]
            chosen == bucket_reads.chosen[1]
            below == BelowThreshold(read)
        IN  /\ below # {} =>
                  /\ chosen # None
                  /\ chosen[1][1] = Min({ h % bucket_reads.numbuckets : h \in below })
                  /\ read[chosen[1][2] + 1] \in below
                  /\ read[chosen[1][2] + 1] % bucket_reads.numbuckets = chosen[1][1]
                  /\ bucket_writers[chosen[1][1]] = << read >>
            /\ below = {} => chosen = None /\ Written = 0
            /\ Written <= 1

\* A read without a window hash below the threshold has been through the closure.
C30_NoneReached == BucketDone /\ bucket_reads.chosen[1] = None

\* The read was written to a bucket other than that of its smallest window hash.
C30_WrongBucket ==
    /\ BucketDone
    /\ BelowThreshold(bucket_reads.reads[1]) # {}
    /\ bucket_reads.chosen[1][1][1]
          # Min(BelowThreshold(bucket_reads.reads[1])) % bucket_reads.numbuckets

-----------------------------------------------------------------------------
\* The LinkMapping codec.

\* C31: when from_stream has returned None, the records it returned before are the
\* records given to write_to, bucket as bucket and entry as entry, in the same order,
\* and all bytes of the bucket were read; before that, what it has returned is a
\* prefix of them.
C31_MappingRoundTrip ==
    mapping_stream # << >> =>
        /\ Len(mapping_stream.decoded) <= Len(mapping_bucket.records)
        /\ mapping_stream.decoded
              = SubSeq(mapping_bucket.records, 1, Len(mapping_stream.decoded))
        /\ mapping_stream.ended =>
              /\ mapping_stream.decoded = mapping_bucket.records
              /\ mapping_stream.pos = Len(mapping_bucket.bytes) + 1

\* The end of a stream of two records with differing fields and varints of more than
\* one byte.
C31_Witness ==
    /\ mapping_stream # << >>
    /\ mapping_stream.ended
    /\ Len(mapping_stream.decoded) = 2
    /\ mapping_stream.decoded[1].bucket # mapping_stream.decoded[1].entry
    /\ mapping_stream.decoded[2].entry >= 16384
    /\ Len(mapping_bucket.bytes) > 4

\* The end of an empty stream.
C31_WitnessEmpty ==
    /\ mapping_stream # << >>
    /\ mapping_stream.ended
    /\ mapping_bucket.records = << >>

-----------------------------------------------------------------------------
\* Consecutive compression of the extra data of the output sequences.

\* C32: the decoder, starting each flushed block from the initial last_data and
\* advancing it with obtain_last_data, has decoded a prefix of the records written and,
\* at the end, all of them, index as index, color as color and links as links, leaving
\* no byte unread; the last_data the writer carries is the initial one after a flush
\* and the color of the last record written otherwise.
C32_ConsecutiveRoundTrip ==
    sequence_writer # << >> =>
        /\ Len(sequence_reader.decoded) <= Len(sequence_writer.records)
        /\ sequence_reader.decoded
              = SubSeq(sequence_writer.records, 1, Len(sequence_reader.decoded))
        /\ sequence_reader.left = 0
        /\ sequence_reader.ended => sequence_reader.decoded = sequence_writer.records
        /\ sequence_writer.last_data =
              IF sequence_writer.buffer = << >>
              THEN InitialLastData
              ELSE sequence_writer.records[sequence_writer.next - 1][2]

\* Two records in one block, the second written as a distance from the first, whose
\* color is neither its index nor its links info.
C32_Witness ==
    /\ sequence_writer # << >>
    /\ sequence_reader.ended
    /\ Len(sequence_writer.blocks) = 1
    /\ Len(sequence_reader.decoded) = 2
    /\ sequence_reader.decoded[1][2] = 2
    /\ sequence_reader.decoded[2][2] = 1
    /\ sequence_reader.decoded[2][3] = 0
    /\ sequence_reader.decoded[1][1] = 128

\* Two records in two blocks: the writer was reset between them.
C32_WitnessFlushed ==
    /\ sequence_writer # << >>
    /\ sequence_reader.ended
    /\ Len(sequence_writer.blocks) = 2
    /\ sequence_reader.decoded[1][2] # InitialLastData


\* The records of the sequence that fall into sub-bucket b of n.
OfSubBucket(records, b, n) == SelectSeq(records, LAMBDA r : r[2] % n = b)

\* The records of the packets sent to an address, in the order of the sends.
RECURSIVE SentTo(_, _)
SentTo(sends, address) ==
    IF sends = << >> THEN << >>
    ELSE (IF Head(sends).address = address THEN Head(sends).packet ELSE << >>)
             \o SentTo(Tail(sends), address)

\* pre_execute has returned after decoding a file.
Delivered == reader.pc = "pre_executed" /\ reader.async_reader # None

\* C33: when pre_execute has returned, the records sent to the address of sub-bucket b
\* are the records of the file with get_sequence_bucket mod 2^log = b, each once, in
\* decode order; while it runs no buffer is left full; no packet sent is empty or
\* larger than a buffer, and nothing is sent to an address of another group.
C33_Delivery ==
    /\ Delivered =>
          LET addresses == group.executors_initializer[1]
              n == 2 ^ reader.second_buckets_count_log
          IN  \A b \in 0 .. n - 1 :
                  SentTo(packet_send, addresses[b + 1])
                      = OfSubBucket(decode_all_bucket_items(file.reads), b, n)
    /\ reader.pc = "reading" =>
          \A b \in DOMAIN reader.buffers : Len(reader.buffers[b]) < BufferCap
    /\ \A i \in DOMAIN packet_send :
          /\ packet_send[i].packet # << >>
          /\ Len(packet_send[i].packet) <= BufferCap
          /\ \E b \in DOMAIN group.executors_initializer[1] :
                packet_send[i].address = group.executors_initializer[1][b]

\* Two sub-buckets, one that filled a buffer and one whose buffer went out in the final
\* loop.
C33_Witness ==
    /\ Delivered
    /\ reader.second_buckets_count_log = 1
    /\ \E i, j \in DOMAIN packet_send :
          /\ Len(packet_send[i].packet) = BufferCap
          /\ Len(packet_send[j].packet) < BufferCap
          /\ packet_send[i].address # packet_send[j].address

\* A sub-bucket without records: its empty buffer was not sent.
C33_WitnessEmptyBuffer ==
    /\ Delivered
    /\ reader.second_buckets_count_log = 1
    /\ packet_send # << >>
    /\ \A i \in DOMAIN packet_send :
          packet_send[i].address = group.executors_initializer[1][1]

\* C34: is_finished is false on a reader from allocate_new or reset and true once
\* pre_execute has returned, also by the early return; by then no record of the file is
\* left to decode; and a call of execute panics without a send.
C34_Lifecycle ==
    /\ [](reader # << >> =>
          /\ reader.pc \in {"new", "reset"} => ~is_finished(reader)
          /\ reader.pc \in {"pre_executed", "finalized", "execute_panic"} =>
                /\ is_finished(reader)
                /\ reader.left = << >>
                /\ reader.async_reader = None => file.reads = << >>
                /\ Len(packet_send) = reader.sent_at_return)
    /\ [][reader # << >> /\ reader.pc = "pre_executed" /\ reader'.pc = "execute_panic" =>
              /\ packet_send' = packet_send
              /\ file' = file
              /\ reader' = [reader EXCEPT !.pc = "execute_panic"]]_vars

\* execute was called after the early return.
C34_Witness ==
    /\ reader # << >>
    /\ reader.pc = "execute_panic"
    /\ reader.async_reader = None
    /\ is_finished(reader)

\* A reader that was reset after it read a file.
C34_WitnessReset ==
    /\ reader # << >>
    /\ reader.pc = "reset"
    /\ packet_send # << >>


-----------------------------------------------------------------------------
\* The bucket files across the iterations of links_compaction.

\* Every record of the buckets a is in the buckets b, as often at least.
Preserved(a, b) == \A w \in Buckets : a[w] \sqsubseteq b[w]

\* C35: no step takes a record out of the final-unitig or the result-map buckets; a
\* call of links_compaction starts with empty link buckets, and a worker adds to them
\* the links of its pass and nothing else; no step of an iteration changes its input
\* link buckets.
C35_BucketsAcrossIterations ==
    [][/\ Preserved(final_buckets, final_buckets')
       /\ Preserved(result_map_buckets, result_map_buckets')
       /\ (phase # "links_compaction" /\ phase' = "links_compaction")
             => links_buckets' = EmptyBuckets
       /\ phase = "links_compaction" =>
             /\ links_inputs' = links_inputs
             /\ links_buckets' # links_buckets =>
                   /\ last'.fn = "links_compaction"
                   /\ links_buckets' = Flush(links_buckets, Concat(last'.steps, "links"))]_vars

\* A later iteration has been called and has written links, with final unitigs and
\* mappings of an earlier one in the buckets.
C35_Witness ==
    /\ phase = "links_compaction"
    /\ \A w \in Buckets : wpc[w] = "todo"
    /\ \E w \in Buckets : final_buckets[w] # EmptyBag
    /\ \E w \in Buckets : result_map_buckets[w] # EmptyBag

-----------------------------------------------------------------------------
\* The pairing of links and placeholders in the link buckets.

\* The records of the link buckets, each with its bucket.
WrittenRecords == UNION { { Out(b, r) : r \in BagToSet(links_buckets[b]) } : b \in Buckets }

Copies(o) == CopiesIn(o.rec, links_buckets[o.bucket])

\* The placeholders at a partial unitig and the links whose entries end at it.
PlaceholdersAt(node) ==
    LET S == {o \in WrittenRecords : IsPlaceholderAt(o, node)}
    IN  SumOver([o \in S |-> Copies(o)], S)

LinksEndingAt(node) ==
    LET S == {o \in WrittenRecords : ~Placeholder(o.rec) /\ FarEnd(o.rec) = node}
    IN  SumOver([o \in S |-> Copies(o)], S)

\* A record is keyed at a partial unitig of the input, and a link at the partial unitig
\* that a linked pair joins to the first of its entries.
AtOwnEndpoint(o) ==
    /\ KeyOf(o) \in InputNodes
    /\ ~Placeholder(o.rec) => \E e \in Edges : Joins(e, << KeyOf(o), o.rec.entries[1] >>)

\* C36: after hashes_sorting and during and after every iteration of links_compaction,
\* the link buckets hold at every partial unitig as many placeholders as there are
\* links whose last entry it is, and every record is in the bucket of its own endpoint.
C36_PlaceholderPairing ==
    /\ \A node \in InputNodes \cup {KeyOf(o) : o \in WrittenRecords} :
          PlaceholdersAt(node) = LinksEndingAt(node)
    /\ \A o \in WrittenRecords :
          /\ AtOwnEndpoint(o)
          /\ ~Placeholder(o.rec) => FarEnd(o.rec) \in InputNodes

\* An iteration has returned links made by a fuse and by a turn, each beside its
\* placeholder in another bucket.
C36_Witness ==
    /\ phase = "compacted" /\ ret = "None"
    /\ \E s, t \in CompactSteps : s.res.kind = "fuse" /\ t.res.kind = "reemit" /\ t.coin
    /\ \E o \in WrittenRecords :
          /\ ~Placeholder(o.rec) /\ Len(o.rec.entries) >= 2
          /\ FarEnd(o.rec).bucket # o.bucket
          /\ PlaceholdersAt(FarEnd(o.rec)) = 1

\* hashes_sorting has returned a link and its placeholder.
C36_WitnessHashes ==
    /\ phase = "hashes_sorted"
    /\ \E o \in WrittenRecords : ~Placeholder(o.rec) /\ PlaceholdersAt(FarEnd(o.rec)) = 1

-----------------------------------------------------------------------------
\* The result map at convergence.

\* The partial unitigs that occur in a link: the two entries of every linked pair.
LinkedNodes == UNION { {e.from, e.to} : e \in Edges }

\* The LinkMapping records of a partial unitig, in the result-map bucket of its bucket.
MappingsOf(node) ==
    LET S == {m \in BagToSet(result_map_buckets[node.bucket]) : m.entry = node.index}
    IN  SumOver([m \in S |-> CopiesIn(m, result_map_buckets[node.bucket])], S)

ClaimedBy(node) == {u \in Finished : node \in Range(Members(u))}

\* C37: at convergence every partial unitig that occurs in a link has exactly one
\* LinkMapping, is a member of exactly one finished unitig, written once, and its
\* mapping names the bucket of that finished unitig; nothing else is mapped.
C37_MappedOnce ==
    Converged =>
        /\ \A node \in LinkedNodes :
              /\ MappingsOf(node) = 1
              /\ Cardinality(ClaimedBy(node)) = 1
              /\ \A u \in ClaimedBy(node) :
                    /\ CopiesIn(u.rec, final_buckets[u.bucket]) = 1
                    /\ BagIn(LinkMapping(u.bucket, node.index), result_map_buckets[node.bucket])
        /\ TotalRecords(result_map_buckets) = Cardinality(LinkedNodes)

\* Two components have finished in different final buckets, and one of them has
\* members of both buckets.
C37_Witness ==
    /\ Converged
    /\ \E u, v \in Finished :
          /\ u.bucket # v.bucket
          /\ \E m, n \in Range(Members(u)) : m.bucket # n.bucket
    /\ Cardinality(LinkedNodes) >= 4

\* A cycle has converged: the entry of the closed unitig is mapped once.
C37_WitnessCycle ==
    /\ Converged
    /\ \E u \in Finished : IsClosed(u) /\ MappingsOf(KeyOf(u)) = 1

-----------------------------------------------------------------------------
\* The groups of an iteration.

\* Every (bucket, entry) has at most one Forward and at most one Backward hash entry.
OnePerEnd ==
    \A e, f \in UNION {hash_inputs[b] : b \in Buckets} :
        (e.bucket = f.bucket /\ e.entry = f.entry /\ e.direction = f.direction) => e = f

\* C38: for inputs with at most one Forward and one Backward hash entry per (bucket,
\* entry), every group of an iteration has at most 2 records, two non-empty links of a
\* group have opposite is_forward and no begin_sealed, a link beside a placeholder has
\* no begin_sealed, and no pass ends in a failed assertion or in the self-link exit.
C38_GroupsWellFormed ==
    OnePerEnd =>
        /\ status = "running"
        /\ \A st \in CompactSteps :
              /\ Len(st.x) <= 2
              /\ NonEmptyPair(st.x) =>
                    /\ st.x[1].flags.is_forward # st.x[2].flags.is_forward
                    /\ ~st.x[1].flags.begin_sealed /\ ~st.x[2].flags.begin_sealed
              /\ LinkAndPlaceholder(st.x) => ~TheLink(st.x).flags.begin_sealed
              /\ ~Failed(st.res)

\* A pass has fused two links, one of them with its end sealed, and has re-emitted a
\* link beside a placeholder.
C38_Witness ==
    /\ OnePerEnd
    /\ \E s, t \in CompactSteps :
          /\ s.res.kind = "fuse" /\ (s.x[1].flags.end_sealed \/ s.x[2].flags.end_sealed)
          /\ LinkAndPlaceholder(t.x) /\ t.res.kind = "reemit"

\* A pass has met a link alone in its group and a placeholder alone in its group.
C38_WitnessLonely ==
    /\ OnePerEnd
    /\ \E s, t \in CompactSteps :
          /\ LonelyLink(s.x)
          /\ Len(t.x) = 1 /\ Placeholder(t.x[1]) /\ t.res.kind = "skip"

-----------------------------------------------------------------------------
\* The color indexes.

\* What the calls of get_id have returned: (color set, color index) pairs.
GetIdResults == UNION { get_id_calls[t].results : t \in Threads }

\* How often serialize_colors was given the color set.
Serialized(cs) == Cardinality({i \in DOMAIN colors_storage : colors_storage[i] = cs})

\* C39: all calls of get_id with one color set return one color index, and no color set
\* is given to serialize_colors twice, however the calls of the threads interleave.
C39_OneIndexPerColorSet ==
    get_id_calls # << >> =>
        /\ \A r, q \in GetIdResults : r[1] = q[1] => r[2] = q[2]
        /\ \A cs \in ColorSets : Serialized(cs) <= 1

\* What the code does: two threads have looked up one color set before either inserted
\* it; it was serialized twice and the two calls returned different indexes.
C39_TwoIndexes ==
    /\ get_id_calls # << >>
    /\ \E cs \in ColorSets :
          /\ Serialized(cs) = 2
          /\ \E r, q \in GetIdResults : r[1] = cs /\ q[1] = cs /\ r[2] # q[2]
    /\ \A t \in Threads : get_id_calls[t].pc = "idle"

-----------------------------------------------------------------------------
\* The end of a PacketAny.

\* The step ran no destructor on the packet of body o: the process goes on, the pool is
\* as it was, the body was neither handed to the returner nor freed.
NoDropRan(o) ==
    /\ status' = "running"
    /\ pool' = pool
    /\ lifetimes'[o].sends = lifetimes[o].sends
    /\ lifetimes'[o].frees = lifetimes[o].frees
    /\ lifetimes'[o].dropped = lifetimes[o].dropped

\* The step ended in the panic of Drop for PacketAny: nothing went back to the pool.
FatalDrop(o) ==
    /\ status' = "panic"
    /\ packets'[o] = Leaked(packets[o])
    /\ pool' = pool
    /\ lifetimes' = lifetimes

AnyEnds(o) == packets[o].kind = "PacketAny" /\ packets'[o].kind # "PacketAny"

\* C40 as stated: a PacketAny ends in a downcast or in the fatal drop, the drop of a
\* PacketAny is fatal and returns nothing, and no upcast and no downcast runs a drop.
C40_Original ==
    [][\A o \in Objects :
         /\ AnyEnds(o) =>
               \/ FatalDrop(o)
               \/ NoDropRan(o) /\ \E ty \in PacketTypes : packets'[o] = downcast(packets[o], ty)
         /\ DropOfPacketAny(o) => FatalDrop(o)
         /\ Upcast(o) => NoDropRan(o) /\ packets'[o].kind = "PacketAny"
         /\ \A ty \in PacketTypes :
               Downcast(o, ty) => NoDropRan(o) /\ packets'[o].kind = "Packet"]_vars

\* C40 amended: a PacketAny ends in a downcast or in the fatal drop; the drop of a
\* PacketAny is fatal and returns nothing to the pool; an upcast, and a downcast to the
\* type of the body, run no drop; a downcast to another type panics in unwrap and ends
\* like the drop of the PacketAny it holds, with nothing returned to the pool.
C40_AnyEndsInDowncast ==
    [][\A o \in Objects :
         /\ AnyEnds(o) =>
               \/ FatalDrop(o)
               \/ NoDropRan(o) /\ packets'[o] = downcast(packets[o], packets[o].ty)
         /\ DropOfPacketAny(o) => FatalDrop(o)
         /\ Upcast(o) => NoDropRan(o) /\ packets'[o].kind = "PacketAny"
         /\ \A ty \in PacketTypes :
               Downcast(o, ty) =>
                   IF packets[o].ty = ty
                   THEN NoDropRan(o) /\ packets'[o].kind = "Packet"
                   ELSE FatalDrop(o)]_vars

\* A pooled packet came back from an upcast and a downcast, was upcast again and then
\* ended in the panic: its body is not in the channel and still counts as outstanding.
C40_Witness ==
    /\ status = "panic"
    /\ \E o \in Objects :
          /\ packets[o].kind = "Leaked"
          /\ lifetimes[o].pooled /\ lifetimes[o].casts >= 2
          /\ lifetimes[o].sends = 0 /\ lifetimes[o].frees = 0
          /\ o \notin pool.queue /\ pool.outstanding >= 1

====
